---- MODULE Spec2Model ----
(***************************************************************************)
(* Yarely core: the counter lock around SchedulingManager.item_scheduling, *)
(* the Display Manager's renderer records, the Manager base's supervision  *)
(* of handler subprocesses, and the request loop of a requester.           *)
(*                                                                         *)
(* Each component has its own specification (SpecLock, SpecDisplay,        *)
(* SpecMgr, SpecReg, SpecReq, SpecSched, SpecUri, SpecCache, SpecStore,    *)
(* SpecFilter, SpecPriority, SpecTimer, SpecFailed, SpecRedisplay,         *)
(* SpecPull, SpecAlloc); the variables of the other components stay at     *)
(* their initial values.                                                   *)
(***************************************************************************)
EXTENDS Integers, Sequences, FiniteSets, TLC

(***************************************************************************)
(* Bounds of the model.                                                    *)
(***************************************************************************)
\* number of threads that may call item_scheduling concurrently
NThreads == 3
\* number of calls of item_scheduling started in one behaviour
MaxCalls == 4
\* renderers the Display Manager starts in one behaviour
MaxRenderers == 2
\* registrations accepted for one subprocess (each generates a new token)
MaxGen == 1
\* handlers a Manager executes at the same time
MaxHandlers == 2
\* registrations accepted for one handler (each generates a new token)
MaxReg == 2
\* times a Manager re-initialises itself (_restart_zmq) in one behaviour
MaxRestarts == 1
\* requests put on zmq_scheduler_request_queue in one behaviour
MaxQueue == 1
\* requests waiting in a Handler's zmq_request_queue
MaxPending == 2
\* request sockets a Handler creates after its first one
MaxSockets == 2
\* polls that time out while one request is outstanding
MaxPolls == 2
\* dates a <date> constraint may name
MaxDate == 2
\* <date> constraints of a content set
MaxConstraints == 1
\* content items of a content set
MaxItems == 1
\* content descriptor sets waiting in cds_updates
MaxUpdates == 2
\* CacheListener threads of the CacheManager
NWorkers == 2
\* chunks _write_file_from_url reads from the URL of the item
NChunks == 2
\* times the item is put on the cache queue in one behaviour
MaxPuts == 3
\* children of the content set a feed delivers
MaxChildren == 2
\* content items of the content set the filters run on
MaxSiblings == 2
\* threads that wait to run item_scheduling
MaxWaiting == 1
\* reads of a pull handler in one behaviour
MaxReads == 6
\* empty tickets a ticket allocator is given
MaxTickets == 5
\* content items the tickets are allocated to
MaxRatioItems == 3
\* the share of an item in the sum of the shares is its ratio
MaxShare == 3
\* an item and its siblings, whose ratios get_scaled_ratio scales
MaxFamily == 3
\* a ratio attribute is a number of RatioUnit-ths, at most MaxRatio of them
RatioUnit == 2
MaxRatio == 3

VARIABLES
  \* ---- lock_counter.py / SchedulingManager ----
  flag,       \* SchedulingManager.semaphore_lock_decorator_flag
  lpc,        \* position of each calling thread inside wrapper()
  ltmp,       \* the value a thread has loaded for its pending += / -=
  lcalls,     \* calls of the wrapper started so far
  \* ---- scheduling/display.py: DisplayManager ----
  rmap,       \* keys of DisplayManager._renderers
  robj,       \* every ExecutingRenderer created, in the dictionary or not
  ruuid,      \* renderers started so far (the next one is ruuid + 1)
  dStopping,  \* renderers with a thread running ExecutingRenderer.stop
  dTimers,    \* renderers with a pending _set_renderer_visible timer
  dCleanup,   \* position whose _cleanup_renderers is about to run under
              \* the lock held by _set_renderer_visible, or NoPos
  dReply,     \* the last reply sent on the renderer reply socket
  dAlive,     \* the renderer reply thread is running
  \* ---- helpers/base_classes/manager.py: Manager ----
  executing_handlers,   \* keys of Manager._executing_handlers
  handlers,             \* the SubprocessExecutionWithErrorCapturing records
  failed_handler_count, \* Manager.failed_handler_count
  stop_request,         \* Manager._stop_request is set
  checker_alive,        \* _handler_status_check_thread is alive
  messaging_alive,      \* _zmq_messaging_thread is alive
  checking,             \* handlers the checker has still to visit in the
                        \* pass it is making (it holds Manager._lock)
  timers,               \* pending Timer(2, start_handler), per command
  mpc,                  \* "new", "run", or the position of _restart_zmq
  zmq_context,          \* number of the zmq.Context the Manager uses
  mReply,               \* the reply sent to the last request on the Manager's reply socket
  status_log,           \* the last finding logged by a status check
  request_queue,        \* length of zmq_scheduler_request_queue
  \* ---- helpers/base_classes/handler.py: Handler ----
  zmq_request_queue,    \* Handler.zmq_request_queue
  hpc,                  \* position of the thread running _handle_zmq
  encoded_qitem,        \* the request that was sent and awaits its reply
  zmq_request_socket,   \* number of the REQ socket _handle_zmq uses
  sent,                 \* times encoded_qitem was sent
  polls,                \* polls that timed out since encoded_qitem was sent
  terminate,            \* TERMINATE waits on the termination socket
  registered,           \* Handler.registered
  \* ---- scheduling/manager.py, scheduling/contextconstraintsparser.py ----
  cds,                  \* SchedulingManager.cds
  cds_updates,          \* SchedulingManager.cds_updates
  filtered_cds,         \* SchedulingManager.filtered_cds
  parser_alive,         \* the 'ZMQ Scheduler Reply Thread' is running
  pReply,               \* the reply sent to the last request on its sockets
  \* ---- content/caching.py: one content item in the cache directory ----
  cache_queue,          \* entries of CacheManager.cache_queue for the item
  puts,                 \* times the item was put on the queue
  cpc,                  \* position of each CacheListener in run
  download_path,        \* the file named <name>.download, or NoFile
  cache_path,           \* the file named <name>, or NoFile
  inode,                \* the chunks of each file
  f,                    \* the file each CacheListener has open for writing
  offset,               \* chunks each CacheListener has written to f
  \* ---- subscriptions/subscription_manager/persistence.py ----
  xml_table,            \* table xml: the text stored for each xml_id
  uri_table,            \* table uri: the xml_id of each URI, or NoId
  xml_link,             \* table xml_link: the parent_id of each child_id
  xml_children,         \* what to_etree_elem returned for the last update
  forwarded,            \* the last update put one on the scheduler queue
  store_busy,           \* select_root_id_where_uri loops under Manager._lock
  \* ---- scheduling/filters: the pipeline applied to one content set ----
  pipeline_cds,         \* the <content-set> element the filters are given
  today,                \* the date of datetime.datetime.now()
  cached_files,         \* files present in the cache directory
  touch_input,          \* the recent touch input of the context store
  tacita_files,         \* requested files of the recent content trigger
  once,                 \* FilterPipeline.filter_cds of pipeline_cds
  twice,                \* FilterPipeline.filter_cds of once
  priority_cds,         \* PriorityFilter.filter_cds of pipeline_cds
  met_at,               \* constraints_are_met of each item, per condition
  \* ---- scheduling/manager.py: item_scheduling and its Timer ----
  item_scheduling_timer, \* seconds until the Timer runs item_scheduling
  scheduling_threads,   \* threads started for item_scheduling, not yet run
  display_threads,      \* threads display_item started for _display_item
  active_timestamp,     \* the age of each renderer's active_timestamp
  last_run,             \* what the last run of item_scheduling found and did
  \* ---- helpers/base_classes/pull_handler.py: PullHandler ----
  window,               \* PullHandler.window, in seconds
  refresh_rate,         \* PullHandler.refresh_rate, in seconds
  read_timer,           \* tenths of a second read_timer was started with
  last_read,            \* last_read is set
  outcomes,             \* how the reads ended so far
  \* ---- schedulers/lottery/ratio_allocator.py: one allocator ----
  total_ticket_count,   \* the empty tickets the allocator was given
  tickets_for_allocation, \* size of LotteryTicketAllocator.tickets_for_allocation
  content_item_ratio_pairs, \* the share of each item, in shuffled order
  allocated_tickets,    \* tickets put on allocated_tickets for each item
  ready,                \* LotteryTicketAllocator.ready
  \* ---- schedulers/lottery/ratio_allocator.py: get_scaled_ratio ----
  all_ratios,           \* the unscaled ratio of an item and of its siblings
  default_ratio,        \* the ratio given to the items that specify none
  scaled_ratio,         \* _CACHE[id(c)]['scaled_ratio'] of each of them
  \* ---- scheduling/manager.py: the Timers of item_scheduling ----
  pending_timers,       \* Timers started, neither cancelled nor run yet
  current_pending,      \* self.item_scheduling_timer is one of them
  \* ---- schedulers/lottery/pipeline.py: get_items_to_schedule ----
  allocator_thread,     \* the thread of the ticket allocator
  scheduler_pc,         \* where the caller of get_items_to_schedule is
  \* ---- scheduling/display.py: removals during the fade delay ----
  removed_in_fade       \* renderers taken out of the dictionary by
                        \* remove_item, remove_items or preparation_failed
                        \* while their _set_renderer_visible Timer is pending

lockVars == <<flag, lpc, ltmp, lcalls>>

dispVars == <<rmap, robj, ruuid, dStopping, dTimers, dCleanup, dReply, dAlive>>

mgrVars == <<executing_handlers, handlers, failed_handler_count, stop_request,
             checker_alive, messaging_alive, checking, timers, mpc,
             zmq_context, mReply, status_log, request_queue>>

reqVars == <<zmq_request_queue, hpc, encoded_qitem, zmq_request_socket, sent,
             polls, terminate, registered>>

schedVars == <<cds, cds_updates, filtered_cds, parser_alive, pReply>>

\* the components that were modelled first, and the ones that followed
coreVars == <<lockVars, dispVars, mgrVars, reqVars>>
cacheVars == <<cache_queue, puts, cpc, download_path, cache_path, inode, f,
               offset>>

storeVars == <<xml_table, uri_table, xml_link, xml_children, forwarded, store_busy>>

filterVars == <<pipeline_cds, today, cached_files, touch_input, tacita_files,
                once, twice, priority_cds, met_at>>

timerVars == <<item_scheduling_timer, scheduling_threads, display_threads,
               active_timestamp, last_run>>

\* the components of the scheduler's timing, of pull handlers and of the
\* ticket allocators
pullVars == <<window, refresh_rate, read_timer, last_read, outcomes>>

allocVars == <<total_ticket_count, tickets_for_allocation,
               content_item_ratio_pairs, allocated_tickets, ready>>

\* the components that were modelled last
ratioVars == <<all_ratios, default_ratio, scaled_ratio>>

rerunVars == <<pending_timers, current_pending>>

waitVars == <<allocator_thread, scheduler_pc>>

fadeVars == <<removed_in_fade>>

finalVars == <<ratioVars, rerunVars, waitVars, fadeVars>>

laterVars == <<timerVars, pullVars, allocVars, finalVars>>

restVars == <<schedVars, cacheVars, storeVars, filterVars, laterVars>>

vars == <<coreVars, restVars>>

(***************************************************************************)
(* semaphore_lock_decorator.wrapper (helpers/decorators/lock_counter.py).  *)
(* `flag += 1` and `flag -= 1` on an attribute are a load followed by a    *)
(* store; another thread may run between the two, so each is two steps.    *)
(***************************************************************************)
Threads == 1..NThreads

LockInit ==
  /\ flag = 0
  /\ lpc = [t \in Threads |-> "idle"]
  /\ ltmp = [t \in Threads |-> 0]
  /\ lcalls = 0

\* line 18, load: a caller (main loop, item timer, sensor-update thread,
\* preparation-failed thread) enters the wrapper
WrapperCall ==
  \E t \in Threads :
    /\ lpc[t] = "idle"
    /\ lcalls < MaxCalls
    /\ lcalls' = lcalls + 1
    /\ ltmp' = [ltmp EXCEPT ![t] = flag]
    /\ lpc' = [lpc EXCEPT ![t] = "inc"]
    /\ UNCHANGED flag

\* line 18, store
WrapperIncStore ==
  \E t \in Threads :
    /\ lpc[t] = "inc"
    /\ flag' = ltmp[t] + 1
    /\ lpc' = [lpc EXCEPT ![t] = "test"]
    /\ UNCHANGED <<ltmp, lcalls>>

\* line 21: a third caller gives up (and loads the flag for line 25),
\* the others go on to the wait loop
WrapperTest ==
  \E t \in Threads :
    /\ lpc[t] = "test"
    /\ IF flag > 2
         THEN /\ ltmp' = [ltmp EXCEPT ![t] = flag]
              /\ lpc' = [lpc EXCEPT ![t] = "giveup"]
         ELSE /\ lpc' = [lpc EXCEPT ![t] = "wait"]
              /\ UNCHANGED ltmp
    /\ UNCHANGED <<flag, lcalls>>

\* line 25, store, and line 26: return without running the body
WrapperGiveUp ==
  \E t \in Threads :
    /\ lpc[t] = "giveup"
    /\ flag' = ltmp[t] - 1
    /\ lpc' = [lpc EXCEPT ![t] = "idle"]
    /\ UNCHANGED <<ltmp, lcalls>>

\* lines 29-36: the wait loop is left when the flag is at most 1, and the
\* body f(*args) starts; while flag > 1 the thread sleeps and polls again
WrapperEnterBody ==
  \E t \in Threads :
    /\ lpc[t] = "wait"
    /\ flag <= 1
    /\ lpc' = [lpc EXCEPT ![t] = "body"]
    /\ UNCHANGED <<flag, ltmp, lcalls>>

\* line 36 returns; line 37, load
WrapperBodyReturns ==
  \E t \in Threads :
    /\ lpc[t] = "body"
    /\ ltmp' = [ltmp EXCEPT ![t] = flag]
    /\ lpc' = [lpc EXCEPT ![t] = "dec"]
    /\ UNCHANGED <<flag, lcalls>>

\* line 37, store
WrapperDecStore ==
  \E t \in Threads :
    /\ lpc[t] = "dec"
    /\ flag' = ltmp[t] - 1
    /\ lpc' = [lpc EXCEPT ![t] = "idle"]
    /\ UNCHANGED <<ltmp, lcalls>>


\* line 36 raises: f(*args) ends with an exception (item_scheduling before
\* any CDS was received: filter_cds(None) fails on None.get_content_items),
\* there is no try/finally around the call, so line 37 is not reached and
\* the exception ends the calling thread
WrapperBodyRaises ==
  \E t \in Threads :
    /\ lpc[t] = "body"
    /\ lpc' = [lpc EXCEPT ![t] = "idle"]
    /\ UNCHANGED <<flag, ltmp, lcalls>>

(***************************************************************************)
(* DisplayManager (scheduling/display.py) and the subprocess record of a   *)
(* renderer, SubprocessExecutionWithErrorCapturing (base_classes/          *)
(* manager.py).  A security token is a uuid4, unique by construction: the  *)
(* g-th token generated for subprocess u is <<u, g>>, <<u, 0>> being the   *)
(* one-off token of its command line.  <<0, 0>> is the literal 'UNUSED'.   *)
(* A renderer_uuid is the number of the renderer in the order of starting. *)
(* An object that is in no dictionary, Timer or thread any more is         *)
(* garbage, and its record is reset.                                       *)
(***************************************************************************)
TokenUnused == <<0, 0>>
NoPos == "none"
\* one renderer more is started where an item is displayed again
MaxRedisplayed == MaxRenderers + 1
Uuids == 1..MaxRedisplayed
\* DEFAULT_POSITION (display.py) and TOUCH_INPUT_BUTTON_POSITION
Positions == {"0", "touch_interaction_button"}
Items == {"image", "video"}
\* every token a message may carry: issued, stale, not yet issued, 'UNUSED'
Tokens == (0..MaxRedisplayed) \X (0..MaxGen)

\* content/constants.py, _MIME_TYPE_CONFIG_MAP[...]['restart_renderer']
restart_renderer(item) == item = "video"

\* ExecutingRenderer.__init__ and SubprocessExecutionWithErrorCapturing.__init__
NewRenderer(pos, item) ==
  [position |-> pos, content_item |-> item, is_visible |-> FALSE,
   has_registered |-> FALSE, gen |-> 0]

\* SubprocessExecutionWithErrorCapturing.security_token of renderer u
RendererToken(u) == <<u, robj[u].gen>>

\* a reply on a reply socket: its kind and, for params, the token it carries
NoReply == [kind |-> "none", token |-> TokenUnused]
PongReply == [kind |-> "pong", token |-> TokenUnused]
ErrorReply == [kind |-> "error", token |-> TokenUnused]
ParamsReply(tok) == [kind |-> "params", token |-> tok]

\* the records of the objects still referenced by the dictionary, a stop
\* thread or a Timer; the others are garbage
Collect(objs, live) ==
  [u \in Uuids |-> IF u \in live THEN objs[u] ELSE NewRenderer("0", "image")]

DispInit ==
  /\ rmap = {}
  /\ robj = [u \in Uuids |-> NewRenderer("0", "image")]
  /\ ruuid = 0
  /\ dStopping = {}
  /\ dTimers = {}
  /\ dCleanup = NoPos
  /\ dReply = NoReply
  /\ dAlive = TRUE

\* DisplayManager._get_renderer_at_position: the visible renderers at pos
\* (the code returns the first one the dictionary yields)
VisibleAt(pos) ==
  {u \in rmap : robj[u].position = pos /\ robj[u].is_visible}

\* DisplayManager._check_item_is_at_position, for the renderer r found
ItemIsAt(item, pos, r) ==
  IF r = 0 THEN FALSE ELSE robj[r].content_item = item

\* DisplayManager._lookup_executing_renderer_with_token
RenderersWithToken(tok) == {u \in rmap : RendererToken(u) = tok}

\* DisplayManager._stop_renderer: a thread running ExecutingRenderer.stop is
\* started for every renderer of us that is (still) in the dictionary
StopRenderers(us) == dStopping \cup (us \cap rmap)

\* DisplayManager._display_item and _start_renderer, in the thread that
\* display_item starts
DisplayItemWithin(limit, item, pos) ==
    \E r \in IF VisibleAt(pos) = {} THEN {0} ELSE VisibleAt(pos) :
      /\ dCleanup = NoPos
      /\ IF ItemIsAt(item, pos, r) /\ ~restart_renderer(item)
           THEN UNCHANGED <<rmap, robj, ruuid>>
           ELSE /\ ruuid < limit
                /\ ruuid' = ruuid + 1
                /\ robj' = [robj EXCEPT ![ruuid + 1] = NewRenderer(pos, item)]
                /\ rmap' = rmap \cup {ruuid + 1}
      /\ UNCHANGED <<dStopping, dTimers, dCleanup, dReply, dAlive>>

DisplayItemAt(item, pos) == DisplayItemWithin(MaxRenderers, item, pos)

\* the thread of a call display_item(item, DEFAULT_POSITION), with room for
\* one renderer more
DisplayItemAgain ==
  \E item \in Items : DisplayItemWithin(MaxRedisplayed, item, "0")

\* the thread of a call display_item(item, position)
DisplayItem ==
  \E item \in Items, pos \in Positions : DisplayItemAt(item, pos)

\* SubprocessExecutionWithErrorCapturing.register (manager.py 625-629), on
\* the record of a renderer: a new security token is generated
RendererRegistered(r) == [r EXCEPT !.gen = @ + 1]

\* DisplayManager._generate_params: the token param is the literal 'UNUSED'
DispGenerateParams(u) == ParamsReply(TokenUnused)

\* DisplayManager._handle_register; without a renderer the method returns
\* None and _loop_over_sockets replies with an error
DispHandleRegister ==
  \E tok \in Tokens :
    /\ dAlive
    /\ dCleanup = NoPos
    /\ IF RenderersWithToken(tok) = {}
         THEN /\ dReply' = ErrorReply
              /\ UNCHANGED robj
         ELSE \E u \in RenderersWithToken(tok) :
              /\ robj[u].gen < MaxGen
              /\ robj' = [robj EXCEPT ![u] =
                            [RendererRegistered(@) EXCEPT !.has_registered = TRUE]]
              /\ dReply' = DispGenerateParams(u)
    /\ UNCHANGED <<rmap, ruuid, dStopping, dTimers, dCleanup, dAlive>>

\* DisplayManager._handle_request_finished_loading: the two Timers are
\* started for a renderer of the dictionary; the reply is a pong either way
FinishedLoading ==
  \E id \in Uuids :
    /\ dAlive
    /\ dCleanup = NoPos
    /\ dTimers' = IF id \in rmap THEN dTimers \cup {id} ELSE dTimers
    /\ dReply' = PongReply
    /\ UNCHANGED <<rmap, robj, ruuid, dStopping, dCleanup, dAlive>>

\* DisplayManager._set_renderer_visible, lines 298-317, run by the Timer of
\* _handle_request_finished_loading: the renderer object is marked visible
\* and a stop thread is started for every other registered renderer of the
\* dictionary at its position; the lock is kept for _cleanup_renderers
SetRendererVisible ==
  \E u \in dTimers :
    /\ dCleanup = NoPos
    /\ dTimers' = dTimers \ {u}
    /\ dStopping' = StopRenderers({v \in rmap : /\ v # u
                                                /\ robj[v].has_registered
                                                /\ robj[v].position = robj[u].position})
    /\ robj' = Collect([robj EXCEPT ![u].is_visible = TRUE],
                       rmap \cup dStopping' \cup dTimers')
    /\ dCleanup' = robj[u].position
    /\ UNCHANGED <<rmap, ruuid, dReply, dAlive>>

\* DisplayManager._cleanup_renderers, called at line 321: every renderer at
\* the position that has registered and is not visible is stopped and removed
CleanupRenderers ==
  /\ dCleanup # NoPos
  /\ LET to_delete == {v \in rmap : /\ robj[v].position = dCleanup
                                    /\ robj[v].has_registered
                                    /\ ~robj[v].is_visible}
     IN /\ dStopping' = StopRenderers(to_delete)
        /\ rmap' = rmap \ to_delete
  /\ dCleanup' = NoPos
  /\ UNCHANGED <<robj, ruuid, dTimers, dReply, dAlive>>

\* ExecutingRenderer.stop, in the thread _stop_renderer started: the
\* subprocess is stopped (SubprocessExecutionWithErrorCapturing.stop) and
\* only then the renderer is marked not visible; the thread takes no lock
RendererStop ==
  \E u \in dStopping :
    /\ dStopping' = dStopping \ {u}
    /\ robj' = Collect([robj EXCEPT ![u].is_visible = FALSE],
                       rmap \cup dStopping' \cup dTimers)
    /\ UNCHANGED <<rmap, ruuid, dTimers, dCleanup, dReply, dAlive>>

\* DisplayManager._handle_request_preparation_failed: for an id that is not
\* in the dictionary renderer is None and line 380 raises in the reply
\* thread; otherwise the renderer is stopped and removed and the reply is a
\* pong
PreparationFailed ==
  \E id \in Uuids :
    /\ dAlive
    /\ dCleanup = NoPos
    /\ IF id \in rmap
         THEN /\ dStopping' = StopRenderers({id})
              /\ rmap' = rmap \ {id}
              /\ dReply' = PongReply
              /\ UNCHANGED dAlive
         ELSE /\ dAlive' = FALSE
              /\ dReply' = NoReply
              /\ UNCHANGED <<dStopping, rmap>>
    /\ UNCHANGED <<robj, ruuid, dTimers, dCleanup>>

\* DisplayManager.remove_item
RemoveItem ==
  \E pos \in Positions :
    /\ dCleanup = NoPos
    /\ IF VisibleAt(pos) = {}
         THEN UNCHANGED <<dStopping, rmap>>
         ELSE \E r \in VisibleAt(pos) :
                /\ dStopping' = StopRenderers({r})
                /\ rmap' = rmap \ {r}
    /\ UNCHANGED <<robj, ruuid, dTimers, dCleanup, dReply, dAlive>>

\* a remove_items that takes only the visible renderers off
RemoveVisibleItems ==
  /\ dCleanup = NoPos
  /\ dStopping' = StopRenderers({u \in rmap : robj[u].is_visible})
  /\ rmap' = {u \in rmap : ~robj[u].is_visible}
  /\ UNCHANGED <<robj, ruuid, dTimers, dCleanup, dReply, dAlive>>

\* DisplayManager.remove_items
RemoveItems ==
  /\ dCleanup = NoPos
  /\ dStopping' = StopRenderers(rmap)
  /\ rmap' = {}
  /\ UNCHANGED <<robj, ruuid, dTimers, dCleanup, dReply, dAlive>>

(***************************************************************************)
(* Manager (helpers/base_classes/manager.py) as specialised by the         *)
(* Subscription Manager and the Sensor Manager: the records of the handler *)
(* subprocesses, the checker thread, the messaging thread, the replacement *)
(* Timers and _restart_zmq.                                                *)
(*                                                                         *)
(* A handler takes the first free key of _executing_handlers; the g-th     *)
(* token generated for the handler with key h is <<h, g>>, and a token of  *)
(* a handler that was removed is known to nobody in the dictionary, like   *)
(* any other unknown token <<0, g>>.  Instead of time.time() the records   *)
(* hold the age of each timestamp; the clock advances in steps of          *)
(* ClockStep seconds and the ages stop growing at AgeCap.                  *)
(***************************************************************************)
SUBPROCESS_CHECKIN_TIMEOUT == 5
SUBPROCESS_KILLTERM_TIMEOUT == 5
SUBPROCESS_REGISTRATION_TIMEOUT == 10
SUBPROCESS_FAILED_LIMIT == 5
SUBPROCESS_RESTART_SLEEP == 10

ClockStep == SUBPROCESS_CHECKIN_TIMEOUT
AgeCap == SUBPROCESS_REGISTRATION_TIMEOUT
\* registered = False, last_checkin = None
Unset == -1

Slots == 1..MaxHandlers
\* the root subscription (a local file) and a remote child of it
RootUri == "file://root"
Uris == {RootUri, "http://remote"}
MgrTokens == (0..MaxHandlers) \X (0..MaxReg)

\* SubscriptionManager._init_handlers and URIManager.get_uri_handler_stub
HandlerStub(uri) ==
  [command_line_args |->
     <<"python3", "-m", IF uri = RootUri THEN "handlers.file" ELSE "handlers.http">>,
   params_over_zmq |-> [uri |-> uri]]

Stubs == {HandlerStub(uri) : uri \in Uris}

\* urllib.parse.urlsplit(uri).scheme
Scheme(uri) == IF uri = "file://root" THEN "file" ELSE "http"

\* ACCEPTABLE_NESTING and SubscriptionManager._can_nest
ACCEPTABLE_NESTING == [parent \in {"file"} |-> {"http"}]
can_nest(parent, child) ==
  \/ parent = child
  \/ parent \in DOMAIN ACCEPTABLE_NESTING /\ child \in ACCEPTABLE_NESTING[parent]

\* SubprocessExecutionWithErrorCapturing.__init__ and start, as called by
\* Manager.start_handler, which appends the address, for the key h
NewSubprocess(h, stub) ==
  [command_line_args |-> stub.command_line_args \o <<"tcp://127.0.0.1", <<h, 0>>>>,
   handler_params |-> stub.params_over_zmq,
   security_token |-> <<h, 0>>,
   running |-> TRUE,
   started |-> 0,
   registered |-> Unset,
   last_checkin |-> Unset]

\* the record of a key that is not in the dictionary
NoSubprocess ==
  [command_line_args |-> <<>>, handler_params |-> [uri |-> RootUri],
   security_token |-> <<0, 0>>, running |-> FALSE, started |-> 0,
   registered |-> Unset, last_checkin |-> Unset]

\* a timestamp d seconds later
Older(age, d) ==
  IF age = Unset THEN Unset
  ELSE IF age + d > AgeCap THEN AgeCap ELSE age + d

\* A timestamp that will not be read again counts as AgeCap seconds old:
\* every timestamp of a handler whose subprocess has ended, started once the
\* handler has registered, registered once it has checked in.
Forget(r) ==
  LET old(age) == IF age = Unset THEN Unset ELSE AgeCap
  IN IF ~r.running
       THEN [r EXCEPT !.started = AgeCap, !.registered = old(@),
                      !.last_checkin = old(@)]
       ELSE IF r.registered = Unset THEN r
       ELSE IF r.last_checkin = Unset THEN [r EXCEPT !.started = AgeCap]
       ELSE [r EXCEPT !.started = AgeCap, !.registered = AgeCap]

\* the record of a handler d seconds later
Aged(r, d) ==
  Forget([r EXCEPT !.started = Older(@, d),
                   !.registered = Older(@, d),
                   !.last_checkin = Older(@, d)])

\* the assignment handler.last_checkin = time.time()
CheckedIn(r) == Forget([r EXCEPT !.last_checkin = 0])

\* a registration period that never ends
registration_never_expired(r) == FALSE

\* SubprocessExecutionWithErrorCapturing._registration_expired:
\* started + SUBPROCESS_REGISTRATION_TIMEOUT <= now
registration_expired(r) == r.started >= SUBPROCESS_REGISTRATION_TIMEOUT

\* the last branch of erroneous_state_requires_stop: now > due
checkin_overdue(r) ==
  IF r.last_checkin = Unset
    THEN r.registered > SUBPROCESS_CHECKIN_TIMEOUT
    ELSE r.last_checkin > SUBPROCESS_CHECKIN_TIMEOUT

\* SubprocessExecutionWithErrorCapturing.erroneous_state_requires_stop, for
\* a record of the dictionary (started, no stop requested)
erroneous_state_requires_stop(r) ==
  IF ~r.running THEN TRUE
  ELSE IF r.registered = Unset THEN registration_expired(r)
  ELSE checkin_overdue(r)

\* what erroneous_state_requires_stop logs when it returns True
StatusFinding(r) ==
  IF ~r.running THEN "stopped unexpectedly"
  ELSE IF r.registered = Unset THEN "registration expired"
  ELSE "checkin overdue"

\* SubprocessExecutionWithErrorCapturing.has_token
has_token(r, token) == r.security_token = token

\* a registration that keeps the token of the command line
register_keeping_token(r) == Forget([r EXCEPT !.registered = 0])

\* SubprocessExecutionWithErrorCapturing.register
register(r) ==
  Forget([r EXCEPT !.registered = 0,
                   !.security_token = <<@[1], @[2] + 1>>])

\* SubprocessExecutionWithErrorCapturing.stop: the seconds it sleeps
StopSeconds(r) ==
  IF r.running
    THEN {SUBPROCESS_KILLTERM_TIMEOUT, 2 * SUBPROCESS_KILLTERM_TIMEOUT}
    ELSE {0}

\* Manager._lookup_executing_handler_with_token
HandlersWithToken(token) ==
  {h \in executing_handlers : has_token(handlers[h], token)}

\* Manager._generate_params: the token param is the handler's security token
GenerateParams(r) == ParamsReply(r.security_token)

\* the key start_handler gives a new handler
FreeSlot ==
  CHOOSE h \in Slots \ executing_handlers :
    \A k \in Slots \ executing_handlers : h <= k

\* Manager.start_handler raises ManagerNotExecutingError
NotExecuting == stop_request \/ ~checker_alive

\* a replacement that always runs the command of the root handler
RootReplacementStub(r) == HandlerStub(RootUri)

\* the stub _check_handlers builds for the replacement of a handler:
\* HandlerStub(command_line_args[:3], handler_params)
ReplacementStub(r) ==
  [command_line_args |-> SubSeq(r.command_line_args, 1, 3),
   params_over_zmq |-> r.handler_params]

PendingTimers == {s \in Stubs : timers[s] > 0}

\* the number of pending Timers for the stubs of S
RECURSIVE Pending(_)
Pending(S) ==
  IF S = {} THEN 0
  ELSE LET s == CHOOSE x \in S : TRUE
       IN timers[s] + Pending(S \ {s})

MgrInit ==
  /\ executing_handlers = {}
  /\ handlers = [h \in Slots |-> NoSubprocess]
  /\ failed_handler_count = 0
  /\ stop_request = FALSE
  /\ checker_alive = FALSE
  /\ messaging_alive = FALSE
  /\ checking = {}
  /\ timers = [s \in Stubs |-> 0]
  /\ mpc = "new"
  /\ zmq_context = 0
  /\ mReply = NoReply
  /\ status_log = "none"
  /\ request_queue = 0

\* Manager.start followed by SubscriptionManager.start: the counter is
\* reset, the two threads are started and the root handler is started
\* (start_handler does not raise: the checker was just started)
Start ==
  /\ failed_handler_count' = 0
  /\ checker_alive' = TRUE
  /\ messaging_alive' = TRUE
  /\ executing_handlers' = executing_handlers \cup {FreeSlot}
  /\ handlers' = [handlers EXCEPT
                    ![FreeSlot] = NewSubprocess(FreeSlot, HandlerStub(RootUri))]

\* main(): the application is started after its construction
ManagerStart ==
  /\ mpc = "new"
  /\ mpc' = "run"
  /\ Start
  /\ UNCHANGED <<status_log, stop_request, checking, timers, zmq_context, mReply,
                 request_queue>>

\* Manager._handle_register, under Manager._lock; for an unknown token the
\* method returns None and _loop_over_sockets replies with an error
HandleRegister(token) ==
    /\ messaging_alive
    /\ checking = {}
    /\ IF HandlersWithToken(token) = {}
         THEN /\ mReply' = ErrorReply
              /\ UNCHANGED <<handlers, failed_handler_count>>
         ELSE \E h \in HandlersWithToken(token) :
              /\ handlers[h].security_token[2] < MaxReg
              /\ handlers' = [handlers EXCEPT ![h] = register(@)]
              /\ mReply' = GenerateParams(handlers'[h])
              /\ failed_handler_count' =
                   IF failed_handler_count - 1 > 0
                     THEN failed_handler_count - 1 ELSE 0
    /\ UNCHANGED <<status_log, executing_handlers, stop_request, checker_alive,
                   messaging_alive, checking, timers, mpc, zmq_context,
                   request_queue>>

\* Manager._handle_request_ping behind check_handler_token, which only logs
HandleRequestPing(token) ==
    /\ messaging_alive
    /\ checking = {}
    /\ IF HandlersWithToken(token) = {}
         THEN UNCHANGED handlers
         ELSE \E h \in HandlersWithToken(token) :
                handlers' = [handlers EXCEPT ![h] = CheckedIn(@)]
    /\ mReply' = PongReply
    /\ UNCHANGED <<status_log, executing_handlers, failed_handler_count, stop_request,
                   checker_alive, messaging_alive, checking, timers, mpc,
                   zmq_context, request_queue>>

\* SensorManager._handle_request_sensor_update: for an unknown token handler
\* is None and the assignment to handler.last_checkin raises in the
\* messaging thread; otherwise the message is forwarded to the scheduler
HandleRequestSensorUpdate(token) ==
    /\ messaging_alive
    /\ checking = {}
    /\ IF HandlersWithToken(token) = {}
         THEN /\ messaging_alive' = FALSE
              /\ mReply' = NoReply
              /\ UNCHANGED <<handlers, request_queue>>
         ELSE \E h \in HandlersWithToken(token) :
              /\ request_queue < MaxQueue
              /\ handlers' = [handlers EXCEPT ![h] = CheckedIn(@)]
              /\ request_queue' = request_queue + 1
              /\ mReply' = PongReply
              /\ UNCHANGED messaging_alive
    /\ UNCHANGED <<status_log, executing_handlers, failed_handler_count, stop_request,
                   checker_alive, checking, timers, mpc, zmq_context>>

\* URIManager._lookup_executing_handler_with_uri
HandlersWithUri(uri) ==
  {h \in executing_handlers : handlers[h].handler_params.uri = uri}

\* SubscriptionManager._handle_request_subscription_update for an update
\* with one remote child: the check-in is recorded, a handler is started for
\* the child unless one executes already, and the update is put on the queue
\* to the scheduler.  An unknown token (handler is None) and a start_handler
\* that raises end the messaging thread.
HandleRequestSubscriptionUpdate(token, child) ==
    /\ messaging_alive
    /\ checking = {}
    /\ IF HandlersWithToken(token) = {}
         THEN /\ messaging_alive' = FALSE
              /\ mReply' = NoReply
              /\ UNCHANGED <<executing_handlers, handlers, request_queue>>
         ELSE \E h \in HandlersWithToken(token) :
              LET checked == [handlers EXCEPT ![h] = CheckedIn(@)]
              IN IF HandlersWithUri(child) # {}
                   THEN /\ request_queue < MaxQueue
                        /\ handlers' = checked
                        /\ request_queue' = request_queue + 1
                        /\ mReply' = PongReply
                        /\ UNCHANGED <<executing_handlers, messaging_alive>>
                   ELSE IF NotExecuting
                     THEN /\ handlers' = checked
                          /\ messaging_alive' = FALSE
                          /\ mReply' = NoReply
                          /\ UNCHANGED <<executing_handlers, request_queue>>
                     ELSE /\ request_queue < MaxQueue
                          /\ Cardinality(executing_handlers) < MaxHandlers
                          /\ handlers' =
                               [checked EXCEPT ![FreeSlot] =
                                  NewSubprocess(FreeSlot, HandlerStub(child))]
                          /\ executing_handlers' =
                               executing_handlers \cup {FreeSlot}
                          /\ request_queue' = request_queue + 1
                          /\ mReply' = PongReply
                          /\ UNCHANGED messaging_alive
    /\ UNCHANGED <<status_log, failed_handler_count, stop_request, checker_alive,
                   checking, timers, mpc, zmq_context>>

\* the messages the reply socket may receive: any token, issued or not
Register == \E token \in MgrTokens : HandleRegister(token)

RequestPing == \E token \in MgrTokens : HandleRequestPing(token)

RequestSensorUpdate ==
  \E token \in MgrTokens : HandleRequestSensorUpdate(token)

RequestSubscriptionUpdate ==
  \E token \in MgrTokens, child \in Uris :
    HandleRequestSubscriptionUpdate(token, child)

\* SubscriptionManager._handle_zmq_req_to_scheduler: the request thread
\* takes a request from the queue, sends it and receives the reply
RequestToScheduler ==
  /\ request_queue > 0
  /\ request_queue' = request_queue - 1
  /\ UNCHANGED <<executing_handlers, handlers, failed_handler_count,
                 stop_request, checker_alive, messaging_alive, checking, timers,
                 mpc, zmq_context, mReply, status_log>>

\* the subprocess of a handler ends by itself, and with it the error
\* reader thread of its record
HandlerExits ==
  \E h \in executing_handlers :
    /\ handlers[h].running
    /\ handlers' = [handlers EXCEPT ![h] = Forget([@ EXCEPT !.running = FALSE])]
    /\ UNCHANGED <<status_log, executing_handlers, failed_handler_count, stop_request,
                   checker_alive, messaging_alive, checking, timers, mpc,
                   zmq_context, mReply, request_queue>>

\* ClockStep seconds pass; a Timer of 2 s has run by then, and the checker
\* is not kept waiting in the middle of a pass
Tick ==
  /\ mpc = "run"
  /\ checking = {}
  /\ PendingTimers = {}
  /\ handlers' = [h \in Slots |->
                    IF h \in executing_handlers
                      THEN Aged(handlers[h], ClockStep) ELSE handlers[h]]
  /\ handlers' # handlers
  /\ UNCHANGED <<status_log, executing_handlers, failed_handler_count, stop_request,
                 checker_alive, messaging_alive, checking, timers, mpc,
                 zmq_context, mReply, request_queue>>

\* Manager._check_handlers, line 148-150: after the wait the checker takes
\* Manager._lock and copies the dictionary
CheckerBegin ==
  /\ checker_alive
  /\ ~stop_request
  /\ checking = {}
  /\ executing_handlers # {}
  /\ checking' = executing_handlers
  /\ UNCHANGED <<status_log, executing_handlers, handlers, failed_handler_count,
                 stop_request, checker_alive, messaging_alive, timers, mpc,
                 zmq_context, mReply, request_queue>>

\* Manager._check_handlers, lines 151-204, for one handler of the copy.  A
\* handler in an erroneous state is counted, stopped and removed
\* (stop_handler), which takes the seconds its stop() sleeps; then either
\* _restart_zmq is started in a thread and the checker returns, or a Timer is
\* started for the replacement.  The copy is visited in any order.
CheckHandler(h) ==
  /\ h \in checking
  /\ IF erroneous_state_requires_stop(handlers[h])
       THEN \E d \in StopSeconds(handlers[h]) :
            /\ status_log' = StatusFinding(handlers[h])
            /\ failed_handler_count' = failed_handler_count + 1
            /\ executing_handlers' = executing_handlers \ {h}
            /\ handlers' = [k \in Slots |->
                              IF k = h THEN NoSubprocess
                              ELSE IF k \in executing_handlers
                                THEN Aged(handlers[k], d) ELSE handlers[k]]
            /\ IF failed_handler_count + 1 > SUBPROCESS_FAILED_LIMIT
                 THEN /\ zmq_context < MaxRestarts
                      /\ mpc' = "stop"
                      /\ checker_alive' = FALSE
                      /\ checking' = {}
                      /\ UNCHANGED timers
                 ELSE /\ timers' = [timers EXCEPT
                                      ![ReplacementStub(handlers[h])] = @ + 1]
                      /\ checking' = checking \ {h}
                      /\ UNCHANGED <<mpc, checker_alive>>
       ELSE /\ checking' = checking \ {h}
            /\ UNCHANGED <<executing_handlers, handlers, failed_handler_count,
                           timers, mpc, checker_alive, status_log>>
  /\ UNCHANGED <<stop_request, messaging_alive, zmq_context, mReply,
                 request_queue>>

CheckHandlers == \E h \in Slots : CheckHandler(h)

\* the Timer of line 201 runs Manager.start_handler with the replacement
\* stub: ManagerNotExecutingError is raised in the Timer's thread when the
\* Manager is stopping or its checker has ended
ReplacementTimer ==
  \E stub \in PendingTimers :
    /\ checking = {}
    /\ NotExecuting \/ Cardinality(executing_handlers) < MaxHandlers
    /\ timers' = [timers EXCEPT ![stub] = @ - 1]
    /\ IF NotExecuting
         THEN UNCHANGED <<executing_handlers, handlers>>
         ELSE /\ executing_handlers' = executing_handlers \cup {FreeSlot}
              /\ handlers' = [handlers EXCEPT
                                ![FreeSlot] = NewSubprocess(FreeSlot, stub)]
    /\ UNCHANGED <<status_log, failed_handler_count, stop_request, checker_alive,
                   messaging_alive, checking, mpc, zmq_context, mReply,
                   request_queue>>

\* Manager._restart_zmq, line 331: self.stop() ends the messaging thread,
\* stops and removes every handler, sets _stop_request and joins the checker
RestartZmqStop ==
  /\ mpc = "stop"
  /\ mpc' = "sleep"
  /\ messaging_alive' = FALSE
  /\ executing_handlers' = {}
  /\ handlers' = [h \in Slots |-> NoSubprocess]
  /\ stop_request' = TRUE
  /\ checker_alive' = FALSE
  /\ UNCHANGED <<status_log, failed_handler_count, checking, timers, zmq_context, mReply,
                 request_queue>>

\* a _restart_zmq that ends without calling start()
RestartZmqWithoutStart ==
  /\ mpc = "sleep"
  /\ PendingTimers = {}
  /\ mpc' = "run"
  /\ zmq_context' = zmq_context + 1
  /\ stop_request' = FALSE
  /\ failed_handler_count' = 0
  /\ UNCHANGED <<status_log, checking, timers, mReply, request_queue,
                 checker_alive, messaging_alive, executing_handlers, handlers>>

\* Manager._restart_zmq, lines 334-342: after SUBPROCESS_RESTART_SLEEP
\* seconds (every Timer of 2 s has run) the counter is reset, a new context
\* is created, _stop_request is cleared and start() is called
RestartZmqStart ==
  /\ mpc = "sleep"
  /\ PendingTimers = {}
  /\ mpc' = "run"
  /\ zmq_context' = zmq_context + 1
  /\ stop_request' = FALSE
  /\ Start
  /\ UNCHANGED <<status_log, checking, timers, mReply, request_queue>>

(***************************************************************************)
(* Handler (helpers/base_classes/handler.py): the thread running           *)
(* _handle_zmq sends the requests of zmq_request_queue to the Manager, one *)
(* at a time, and polls for the reply of each.  The request loops of the   *)
(* Subscription Manager and the Sensor Manager towards the scheduler       *)
(* (_handle_zmq_req_to_scheduler) have the same structure.                 *)
(***************************************************************************)
TERMINATION_MARKER == "TERMINATION_MARKER"
NoItem == "none"
Requests == {"register", "ping", "subscription_update"}
Replies == {"params", "pong"}

ReqInit ==
  /\ zmq_request_queue = <<>>
  /\ hpc = "new"
  /\ encoded_qitem = NoItem
  /\ zmq_request_socket = 0
  /\ sent = 0
  /\ polls = 0
  /\ terminate = FALSE
  /\ registered = FALSE

\* Handler.start: register() puts the register message on the queue and
\* the messaging thread is started
HandlerStart ==
  /\ hpc = "new"
  /\ hpc' = "get"
  /\ zmq_request_queue' = Append(zmq_request_queue, "register")
  /\ UNCHANGED <<encoded_qitem, zmq_request_socket, sent, polls, terminate,
                 registered>>

\* a subclass puts a request on the queue (_generate_subscription_update)
PutRequest ==
  /\ hpc # "new"
  /\ ~terminate
  /\ Len(zmq_request_queue) < MaxPending
  /\ zmq_request_queue' = Append(zmq_request_queue, "subscription_update")
  /\ UNCHANGED <<hpc, encoded_qitem, zmq_request_socket, sent, polls,
                 terminate, registered>>

\* Handler.stop: TERMINATE is sent to the termination socket and the
\* termination marker is put on the queue
HandlerStop ==
  /\ hpc # "new"
  /\ ~terminate
  /\ terminate' = TRUE
  /\ zmq_request_queue' = Append(zmq_request_queue, TERMINATION_MARKER)
  /\ UNCHANGED <<hpc, encoded_qitem, zmq_request_socket, sent, polls,
                 registered>>

\* Handler.check_in, at the end of an iteration of the loop: now is true when
\* SUBPROCESS_CHECKIN_INTERVAL has passed since the last request
CheckIn(queue, now) ==
  IF registered' /\ now THEN Append(queue, "ping") ELSE queue

\* lines 177-192: an item is taken from the queue; the termination marker
\* ends the loop, any other item is sent and its reply is awaited
QueueGet ==
  /\ hpc = "get"
  /\ zmq_request_queue # <<>>
  /\ zmq_request_queue' = Tail(zmq_request_queue)
  /\ IF Head(zmq_request_queue) = TERMINATION_MARKER
       THEN /\ hpc' = "ended"
            /\ UNCHANGED <<encoded_qitem, sent, polls>>
       ELSE /\ hpc' = "poll"
            /\ encoded_qitem' = Head(zmq_request_queue)
            /\ sent' = 1
            /\ polls' = 0
  /\ UNCHANGED <<zmq_request_socket, terminate, registered>>

\* lines 229-236: the queue stayed empty for SUBPROCESS_CHECKIN_INTERVAL, and
\* a registered Handler checks in
QueueEmpty ==
  /\ hpc = "get"
  /\ zmq_request_queue = <<>>
  /\ registered' = registered
  /\ zmq_request_queue' = CheckIn(zmq_request_queue, TRUE)
  /\ UNCHANGED <<hpc, encoded_qitem, zmq_request_socket, sent, polls,
                 terminate>>

\* lines 197-200 with socks_with_data empty: the poll has timed out after
\* ZMQ_REQUEST_TIMEOUT_MSEC and the loop polls again
PollTimeout ==
  /\ hpc = "poll"
  /\ polls < MaxPolls
  /\ polls' = polls + 1
  /\ UNCHANGED <<zmq_request_queue, hpc, encoded_qitem, zmq_request_socket,
                 sent, terminate, registered>>

\* lines 201-204 and 227-228: the termination socket has data
PollTerminate ==
  /\ hpc = "poll"
  /\ terminate
  /\ hpc' = "ended"
  /\ UNCHANGED <<zmq_request_queue, encoded_qitem, zmq_request_socket, sent,
                 polls, terminate, registered>>

\* lines 205-221: the request socket has an empty message (NO_DATA); the
\* socket is closed, a new one is created and connected, and the request
\* is sent again
PollEmptyReply ==
  /\ hpc = "poll"
  /\ zmq_request_socket < MaxSockets
  /\ zmq_request_socket' = zmq_request_socket + 1
  /\ sent' = sent + 1
  /\ UNCHANGED <<zmq_request_queue, hpc, encoded_qitem, polls, terminate,
                 registered>>

\* lines 222-224 and 229-236: a reply has come and _handle_zmq_msg has
\* handled it (_handle_reply_params sets registered); then the check-in
PollReply ==
  \E reply \in Replies, now \in BOOLEAN :
    /\ hpc = "poll"
    /\ hpc' = "get"
    /\ registered' = (registered \/ reply = "params")
    /\ Len(zmq_request_queue) < MaxPending
    /\ zmq_request_queue' = CheckIn(zmq_request_queue, now)
    /\ encoded_qitem' = NoItem
    /\ sent' = 0
    /\ polls' = 0
    /\ UNCHANGED <<zmq_request_socket, terminate>>

(***************************************************************************)
(* The content descriptor set (subscriptions/subscription_parser.py,       *)
(* helpers/base_classes/constraint.py) on its way from the Context and     *)
(* Constraints parser (scheduling/contextconstraintsparser.py) to the      *)
(* Scheduling Manager (scheduling/manager.py) and through the filters.     *)
(***************************************************************************)
Dates == 1..MaxDate
Files == {"a.jpg", "b.jpg"}

\* a <content-set> element: its <date> constraints and its <content-item>
\* children, each with the files of its <requires-file> elements
DateXml == [start : Dates, end : Dates]
ItemXml == [files : SUBSET Files \ {{}}]
SeqUpTo(S, n) == UNION {[1..k -> S] : k \in 0..n}
Xmls == [constraints : SeqUpTo(DateXml, MaxConstraints),
         children : SeqUpTo(ItemXml, MaxItems)]

\* a <subscription-update> element with its <content-set>, if it has one
SubscriptionUpdates == [content_set : SeqUpTo(Xmls, 1)]

\* a variable that holds None, or Some object
NoCds == <<>>
Some(object) == <<object>>

\* DateConstraint.__init__
DateConstraint(elem) == [start_date |-> elem.start, end_date |-> elem.end]

\* ContentItem.__init__: SubscriptionElement.__init__ collects the files
ContentItem(elem) == [files |-> elem.files]

\* ContentDescriptorSet.__init__: the object keeps the element and holds the
\* constraints and children that were parsed from it
ContentDescriptorSet(elem) ==
  [etree |-> elem,
   constraints |-> [i \in DOMAIN elem.constraints |->
                      DateConstraint(elem.constraints[i])],
   children |-> [i \in DOMAIN elem.children |-> ContentItem(elem.children[i])]]

\* ContentDescriptorSet.__copy__: a new object parsed from a copy of the
\* element
Copy(set) == ContentDescriptorSet(set.etree)

\* DateConstraint.__eq__: line 744 reads
\*   ends_equal = self.end_date = other.end_date
\* which assigns other's end date to self and to ends_equal, a date, which
\* is true; what is returned is true exactly if the start dates are equal
DateConstraintEq(self, other) ==
  [result |-> self.start_date = other.start_date,
   self |-> [self EXCEPT !.end_date = other.end_date]]

\* own_cnstrts == other_cnstrts of SubscriptionElement.__eq__: lists of
\* different length are unequal at once, otherwise the elements are
\* compared in order up to the first pair that is not equal
FirstDifference(own, other) ==
  LET differ == {i \in DOMAIN own : ~DateConstraintEq(own[i], other[i]).result}
  IN IF differ = {} THEN Len(own) + 1
     ELSE CHOOSE i \in differ : \A j \in differ : i <= j

ConstraintsEq(own, other) ==
  IF Len(own) # Len(other)
    THEN [result |-> FALSE, own |-> own]
    ELSE [result |-> FirstDifference(own, other) > Len(own),
          own |-> [i \in DOMAIN own |->
                     IF i <= FirstDifference(own, other)
                       THEN DateConstraintEq(own[i], other[i]).self
                       ELSE own[i]]]

\* step 1 of SubscriptionElement.__eq__: every file of self has a file of
\* the same identity in other
FilesFound(self, other) == \A file \in self.files : file \in other.files

\* ContentDescriptorSet.__eq__: SubscriptionElement.__eq__ (the file of the
\* root set is the URI of the subscription, the same in every update; then
\* the constraints), then the lists of children, whose items are compared
\* by their files and by the constraints they inherit from the set
CdsEq(self, other) ==
  LET c == ConstraintsEq(self.constraints, other.constraints)
  IN [result |-> /\ c.result
                 /\ Len(self.children) = Len(other.children)
                 /\ \A i \in DOMAIN self.children :
                      FilesFound(self.children[i], other.children[i]),
      self |-> [self EXCEPT !.constraints = c.own]]

\* SchedulingManager._update: [accepted, cds] for the held set and an update
Update(held, update) ==
  IF held = NoCds
    THEN [accepted |-> TRUE, cds |-> Some(update)]
    ELSE IF CdsEq(held[1], update).result
      THEN [accepted |-> FALSE, cds |-> Some(CdsEq(held[1], update).self)]
      ELSE [accepted |-> TRUE, cds |-> Some(update)]

\* DepthFirstFilter.filter_cds and remove_child: a copy of the set without
\* the children for which keep_item is false
Remaining(children, keep) ==
  SelectSeq(children,
            LAMBDA c : c \in {children[i] : i \in keep \cap DOMAIN children})

DepthFirstFilter(set, keep) ==
  LET tmp_cds == Copy(set)
  IN [etree |-> [tmp_cds.etree EXCEPT
                   !.children = Remaining(tmp_cds.etree.children, keep)],
      constraints |-> tmp_cds.constraints,
      children |-> Remaining(tmp_cds.children, keep)]

\* FilterPipeline.filter_cds: the filters run on a copy of the set; which
\* items they keep depends on the time and on the context store
filter_cds(set, keep) == DepthFirstFilter(Copy(set), keep)

SchedInit ==
  /\ cds = NoCds
  /\ cds_updates = <<>>
  /\ filtered_cds = NoCds
  /\ parser_alive = TRUE
  /\ pReply = NoReply

\* XMLSubscriptionParser behind _parse_raw_cds_xml: None without a
\* <content-set>
parse_raw_cds_xml(raw_cds_xml) ==
  IF raw_cds_xml.content_set = <<>> THEN NoCds
  ELSE Some(ContentDescriptorSet(raw_cds_xml.content_set[1]))

\* ContextConstraintsParser._handle_request_subscription_update in
\* _loop_over_sockets: line 221 takes len(parsed_cds) before line 223 tests
\* parsed_cds for None, so a payload that fails to parse raises TypeError
\* and ends the reply thread before the reply is sent
HandleParserSubscriptionUpdate(raw_cds_xml) ==
    /\ parser_alive
    /\ IF parse_raw_cds_xml(raw_cds_xml) = NoCds
         THEN /\ parser_alive' = FALSE
              /\ pReply' = NoReply
              /\ UNCHANGED cds_updates
         ELSE /\ Len(cds_updates) < MaxUpdates
              /\ cds_updates' =
                   Append(cds_updates, parse_raw_cds_xml(raw_cds_xml)[1])
              /\ pReply' = PongReply
              /\ UNCHANGED parser_alive
    /\ UNCHANGED <<cds, filtered_cds>>

\* the subscription updates the Subscription Manager may send
ParserSubscriptionUpdate ==
  \E raw_cds_xml \in SubscriptionUpdates :
    HandleParserSubscriptionUpdate(raw_cds_xml)

\* one turn of SchedulingManager.main that finds an update in the queue: the
\* update is compared with the held set and, if it was accepted, the filters
\* run in item_scheduling
Main ==
  /\ cds_updates # <<>>
  /\ cds_updates' = Tail(cds_updates)
  /\ cds' = Update(cds, Head(cds_updates)).cds
  /\ IF Update(cds, Head(cds_updates)).accepted
       THEN \E keep \in SUBSET (1..MaxItems) :
              filtered_cds' = Some(filter_cds(cds'[1], keep))
       ELSE UNCHANGED filtered_cds
  /\ UNCHANGED <<parser_alive, pReply>>

\* SchedulingManager.item_scheduling, run by the Timer of
\* _start_item_scheduling_timeout or for a sensor update
ItemScheduling ==
  /\ cds # NoCds
  /\ \E keep \in SUBSET (1..MaxItems) : filtered_cds' = Some(filter_cds(cds[1], keep))
  /\ UNCHANGED <<cds, cds_updates, parser_alive, pReply>>

(***************************************************************************)
(* The filters (scheduling/filters) with the constraints they evaluate     *)
(* (helpers/base_classes/constraint.py).  The content set has a list of    *)
(* constraints and content items as children, each with one file and a     *)
(* list of constraints of its own; a constraint is a <priority> or a       *)
(* <date> element.                                                         *)
(***************************************************************************)
ALL_PRIORITIES == <<"lowest", "low", "medium", "high", "highest">>
DEFAULT_VALUE == ALL_PRIORITIES[3]
\* the condition None of is_met and constraints_are_met
NoCondition == "None"

\* the files of the items, with the content type of each
Sources == {"a.jpg", "b.jpg", "c.obj"}
content_type(file) == IF file = "c.obj" THEN "model/obj" ELSE "image/jpeg"
\* the levels the <priority> elements of the content set have
FeedPriorities == {"medium", "high"}
ConstraintXml ==
  [tag : {"priority"}, level : FeedPriorities]
    \cup {[tag |-> "date", start |-> s, end |-> e] : s \in Dates, e \in Dates}
ContentItemXml ==
  [file : Sources, constraints : SeqUpTo(ConstraintXml, MaxConstraints)]
ContentSetXml ==
  [constraints : SeqUpTo(ConstraintXml, MaxConstraints),
   children : SeqUpTo(ContentItemXml, MaxSiblings)]

\* content/helpers.py get_initial_args with MIME_TYPE_CONFIG_MAP: the
\* arguments for the part of the type before '/', <<>> for
\* UnsupportedMimeTypeError
get_initial_args(type) ==
  IF type = "image/jpeg" THEN Some([module |-> ".image", precache |-> TRUE])
  ELSE <<>>

\* is_met without the test of valid_comparison_conditions: a date
\* constraint is evaluated for today whatever the condition is
IsMetForAnyCondition(constraint, condition) ==
  IF constraint.tag = "priority"
    THEN IF condition = NoCondition THEN "ConstraintNotImplementedError"
         ELSE IF constraint.level = condition THEN "True" ELSE "False"
    ELSE IF constraint.start <= today /\ today <= constraint.end
           THEN "True" ELSE "False"

\* Constraint.is_met with PriorityConstraint._is_met, DateConstraint._is_met
\* and the valid_comparison_conditions of the two classes
is_met(constraint, condition) ==
  IF constraint.tag = "priority"
    THEN IF condition = NoCondition THEN "ConstraintNotImplementedError"
         ELSE IF constraint.level = condition THEN "True" ELSE "False"
    ELSE IF condition # NoCondition THEN "ConstraintConditionMatchError"
         ELSE IF constraint.start <= today /\ today <= constraint.end
                THEN "True" ELSE "False"

\* SubscriptionElement.get_constraints with recurse_up_tree for an item of
\* the set: its own constraints, then those of the set
get_constraints(item, set) == item.constraints \o set.constraints

\* SubscriptionElement.constraints_are_met with ignore_unimplemented
constraints_are_met(item, set, condition) ==
  LET constraints == get_constraints(item, set)
      results == {is_met(constraints[i], condition) : i \in DOMAIN constraints}
      found_applicable_constraint == "True" \in results
  IN IF "False" \in results THEN FALSE
     ELSE IF ~found_applicable_constraint /\ condition # NoCondition
       THEN condition = DEFAULT_VALUE
     ELSE TRUE

\* __eq__ of PriorityConstraint and of DateConstraint, which compares the
\* start dates (see DateConstraintEq for its assignment to end_date, which
\* no filter reads afterwards)
ConstraintEq(self, other) ==
  /\ self.tag = other.tag
  /\ IF self.tag = "priority" THEN self.level = other.level
     ELSE self.start = other.start

\* SubscriptionElement.__eq__ for two items of one set: the file, then the
\* lists of constraints, in which those of the set are the same objects
ItemEq(self, other) ==
  /\ self.file = other.file
  /\ Len(self.constraints) = Len(other.constraints)
  /\ \A i \in DOMAIN self.constraints :
       ConstraintEq(self.constraints[i], other.constraints[i])

\* ContentDescriptorSet.__init__ for the filters: the element, the children
\* of the element (etree) and the list _children (children); an item is
\* the position its element had when the set was parsed
ParseSet(elem) ==
  [xml |-> elem,
   etree |-> [i \in DOMAIN elem.children |-> i],
   children |-> [i \in DOMAIN elem.children |-> i]]

\* ContentDescriptorSet.__copy__: the set parsed from a copy of the element
\* as it is now
CopySet(set) ==
  ParseSet([constraints |-> set.xml.constraints,
            children |-> [k \in DOMAIN set.etree |->
                            set.xml.children[set.etree[k]]]])

\* ContentDescriptorSet.get_content_items: the items of _children
get_content_items(set) ==
  [k \in DOMAIN set.children |-> set.xml.children[set.children[k]]]

Without(seq, k) == [j \in 1..(Len(seq) - 1) |-> IF j < k THEN seq[j] ELSE seq[j + 1]]

\* ContentDescriptorSet.remove_child: Element.remove takes out the element
\* of the child, list.remove the first entry of _children that is the
\* child or equal to it
remove_child(set, child) ==
  LET equal == {k \in DOMAIN set.children :
                  \/ set.children[k] = child
                  \/ ItemEq(set.xml.children[set.children[k]],
                            set.xml.children[child])}
      first == CHOOSE k \in equal : \A j \in equal : k <= j
      elem == CHOOSE k \in DOMAIN set.etree : set.etree[k] = child
  IN [set EXCEPT !.etree = Without(@, elem), !.children = Without(@, first)]

RECURSIVE RemoveChildren(_, _)
RemoveChildren(set, children_to_delete) ==
  IF children_to_delete = <<>> THEN set
  ELSE RemoveChildren(remove_child(set, Head(children_to_delete)),
                      Tail(children_to_delete))

\* DepthFirstFilter.filter_cds with _remove_recursively, for the copy
\* Filter.__init__ keeps in self.cds
DepthFirstFilterCds(self_cds, keep_item(_, _)) ==
  LET tmp_cds == CopySet(self_cds)
      children_to_delete ==
        SelectSeq(tmp_cds.children,
                  LAMBDA child : ~keep_item(tmp_cds.xml.children[child],
                                            tmp_cds.xml))
  IN RemoveChildren(tmp_cds, children_to_delete)

\* TouchInputFilter: the xml of the item is that of the touch input
TouchInputKeep(item, set) == touch_input = Some(item)

TouchInputFilter(set) ==
  LET self_cds == CopySet(set)
      filtered == DepthFirstFilterCds(self_cds, TouchInputKeep)
  IN IF touch_input = <<>> THEN self_cds
     ELSE IF Len(filtered.children) = 0 THEN self_cds
     ELSE filtered

\* ContentTypeFilter
ContentTypeKeep(item, set) == get_initial_args(content_type(item.file)) # <<>>

ContentTypeFilter(set) == DepthFirstFilterCds(CopySet(set), ContentTypeKeep)

\* Cache.needs_to_be_cached and Cache.file_cached with strict=False
needs_to_be_cached(item) ==
  /\ get_initial_args(content_type(item.file)) # <<>>
  /\ get_initial_args(content_type(item.file))[1].precache

CacheKeep(item, set) == needs_to_be_cached(item) => item.file \in cached_files

CacheFilter(set) == DepthFirstFilterCds(CopySet(set), CacheKeep)

\* str.startswith for the names of Sources, none of which begins with
\* another
StartsWith(name, prefix) == name = prefix

\* TacitaFilter
TacitaKeep(item, set) ==
  \E content_file \in tacita_files : StartsWith(item.file, content_file)

TacitaFilter(set) ==
  LET self_cds == CopySet(set)
      filtered == DepthFirstFilterCds(self_cds, TacitaKeep)
  IN IF tacita_files = {} THEN self_cds
     ELSE IF Len(filtered.children) = 0 THEN self_cds
     ELSE filtered

\* ConstraintsAreMetFilter: ConditionFilter.keep_item with the condition
\* None
ConstraintsAreMetKeep(item, set) == constraints_are_met(item, set, NoCondition)

ConstraintsAreMetFilter(set) ==
  DepthFirstFilterCds(CopySet(set), ConstraintsAreMetKeep)

\* the loop over the levels from the lowest, priority_level counted from
\* Len(ALL_PRIORITIES) down to 1 for the levels 1 to Len(ALL_PRIORITIES)
RECURSIVE PriorityLevelsAscending(_, _)
PriorityLevelsAscending(self_cds, priority_level) ==
  IF priority_level = 0 THEN self_cds
  ELSE LET current_priority_level ==
             ALL_PRIORITIES[Len(ALL_PRIORITIES) + 1 - priority_level]
           PriorityKeep(item, set) ==
             constraints_are_met(item, set, current_priority_level)
           tmp_cds == DepthFirstFilterCds(self_cds, PriorityKeep)
       IN IF Len(get_content_items(tmp_cds)) > 0 THEN tmp_cds
          ELSE PriorityLevelsAscending(self_cds, priority_level - 1)

\* PriorityFilter.filter_cds: the loop over the levels from the highest,
\* priority_level counted from 1
RECURSIVE PriorityLevels(_, _)
PriorityLevels(self_cds, priority_level) ==
  IF priority_level = 0 THEN self_cds
  ELSE LET current_priority_level == ALL_PRIORITIES[priority_level]
           PriorityKeep(item, set) ==
             constraints_are_met(item, set, current_priority_level)
           tmp_cds == DepthFirstFilterCds(self_cds, PriorityKeep)
       IN IF Len(get_content_items(tmp_cds)) > 0 THEN tmp_cds
          ELSE PriorityLevels(self_cds, priority_level - 1)

\* a priority filter that removes the items of the highest level with items
\* and keeps the others
PriorityFilterDiscardsHighest(set) ==
  LET self_cds == CopySet(set)
      highest == PriorityLevels(self_cds, Len(ALL_PRIORITIES))
  IN RemoveChildren(CopySet(self_cds), highest.children)

PriorityFilter(set) == PriorityLevels(CopySet(set), Len(ALL_PRIORITIES))

\* scheduling/filters/pipeline.py
DEFAULT_FILTERS ==
  <<"TouchInputFilter", "ContentTypeFilter", "CacheFilter", "TacitaFilter",
    "ConstraintsAreMetFilter", "PriorityFilter">>

FilterClass(name, set) ==
  CASE name = "TouchInputFilter" -> TouchInputFilter(set)
    [] name = "ContentTypeFilter" -> ContentTypeFilter(set)
    [] name = "CacheFilter" -> CacheFilter(set)
    [] name = "TacitaFilter" -> TacitaFilter(set)
    [] name = "ConstraintsAreMetFilter" -> ConstraintsAreMetFilter(set)
    [] name = "PriorityFilter" -> PriorityFilter(set)

\* FilterPipeline.filter_cds: the loop over the filters, left when a filter
\* returns a set without items
RECURSIVE RunFilters(_, _)
RunFilters(filtered, i) ==
  IF i > Len(DEFAULT_FILTERS) THEN filtered
  ELSE LET tmp_filter == FilterClass(DEFAULT_FILTERS[i], filtered)
       IN IF Len(get_content_items(tmp_filter)) = 0 THEN tmp_filter
          ELSE RunFilters(tmp_filter, i + 1)

FilterPipeline(set) == RunFilters(CopySet(set), 1)

\* no content set yet, the first day, an empty cache directory and an
\* empty context store
FilterInit ==
  /\ pipeline_cds = NoCds
  /\ today = 1
  /\ cached_files = {}
  /\ touch_input = <<>>
  /\ tacita_files = {}
  /\ once = NoCds
  /\ twice = NoCds
  /\ priority_cds = NoCds
  /\ met_at = <<>>

\* the surroundings of the pipeline before a content set arrives: the day,
\* the files cached so far, the touch input and the content trigger
Surroundings ==
  /\ pipeline_cds = NoCds
  /\ today' \in Dates
  /\ cached_files' \in SUBSET {"a.jpg", "b.jpg"}
  /\ touch_input' \in {<<>>, Some([file |-> "b.jpg", constraints |-> <<>>])}
  /\ tacita_files' \in {{}, {"a.jpg"}}
  /\ <<today', cached_files', touch_input', tacita_files'>>
       # <<today, cached_files, touch_input, tacita_files>>
  /\ UNCHANGED <<pipeline_cds, once, twice, priority_cds, met_at>>

\* a content set arrives
ContentSetArrives ==
  /\ pipeline_cds = NoCds
  /\ \E elem \in ContentSetXml : pipeline_cds' = Some(ParseSet(elem))
  /\ UNCHANGED <<today, cached_files, touch_input, tacita_files, once, twice,
                 priority_cds, met_at>>

\* SchedulingManager.item_scheduling, line 422: the pipeline runs
PipelineOnce ==
  /\ pipeline_cds # NoCds
  /\ once = NoCds
  /\ once' = Some(FilterPipeline(pipeline_cds[1]))
  /\ UNCHANGED <<pipeline_cds, today, cached_files, touch_input, tacita_files,
                 twice, priority_cds, met_at>>

\* the pipeline runs on what it returned
PipelineTwice ==
  /\ once # NoCds
  /\ twice = NoCds
  /\ twice' = Some(FilterPipeline(once[1]))
  /\ UNCHANGED <<pipeline_cds, today, cached_files, touch_input, tacita_files,
                 once, priority_cds, met_at>>

\* PriorityFilter(cds, context_store, config).filter_cds()
PriorityFilterRuns ==
  /\ pipeline_cds # NoCds
  /\ priority_cds = NoCds
  /\ priority_cds' = Some(PriorityFilter(pipeline_cds[1]))
  /\ UNCHANGED <<pipeline_cds, today, cached_files, touch_input, tacita_files,
                 once, twice, met_at>>

\* ConditionFilter.keep_item for every item of the set, at one level
ConditionKeepItem ==
  /\ pipeline_cds # NoCds
  /\ met_at = <<>>
  /\ \E level \in DOMAIN ALL_PRIORITIES :
       met_at' =
         Some([condition |-> ALL_PRIORITIES[level],
               kept |-> [k \in DOMAIN pipeline_cds[1].children |->
                           constraints_are_met(
                             get_content_items(pipeline_cds[1])[k],
                             pipeline_cds[1].xml, ALL_PRIORITIES[level])]])
  /\ UNCHANGED <<pipeline_cds, today, cached_files, touch_input, tacita_files,
                 once, twice, priority_cds>>

(***************************************************************************)
(* The cache directory (content/caching.py): the CacheListener threads of  *)
(* one CacheManager and the two files of one content item.  A file is an   *)
(* inode; a name of the directory refers to an inode, and so does an open  *)
(* file object, also after the name was moved or replaced.                 *)
(***************************************************************************)
Workers == 1..NWorkers
Inodes == 1..(NWorkers + 1)
NoFile == 0

\* the chunks of a file: 1 for a chunk of the item, 0 for a hole
Hole == 0
Chunk == 1
Complete(content) == content = [i \in 1..NChunks |-> Chunk]

\* f.write(chunk) at position k of a file
WriteAt(content, k) ==
  [i \in 1..(IF k > Len(content) THEN k ELSE Len(content)) |->
     IF i = k THEN Chunk ELSE IF i <= Len(content) THEN content[i] ELSE Hole]

\* a file that has no name and is not open is gone
InUse(i, names, files) == i \in names \/ \E w \in Workers : files[w] = i
Sweep(content, names, files) ==
  [i \in Inodes |-> IF InUse(i, names, files) THEN content[i] ELSE <<>>]
FreeInode == CHOOSE i \in Inodes :
               /\ ~InUse(i, {download_path, cache_path}, f)
               /\ \A j \in Inodes :
                    ~InUse(j, {download_path, cache_path}, f) => i <= j

CacheInit ==
  /\ cache_queue = 0
  /\ puts = 0
  /\ cpc = [w \in Workers |-> "get"]
  /\ download_path = NoFile
  /\ cache_path = NoFile
  /\ inode = [i \in Inodes |-> <<>>]
  /\ f = [w \in Workers |-> NoFile]
  /\ offset = [w \in Workers |-> 0]

\* SchedulingManager._cache_cds -> CacheManager.cache_file: the item is put
\* on the queue with every accepted update
CacheCds ==
  /\ puts < MaxPuts
  /\ puts' = puts + 1
  /\ cache_queue' = cache_queue + 1
  /\ UNCHANGED <<cpc, download_path, cache_path, inode, f, offset>>

\* CacheListener.run, line 295
CacheQueueGet ==
  \E w \in Workers :
    /\ cpc[w] = "get"
    /\ cache_queue > 0
    /\ cache_queue' = cache_queue - 1
    /\ cpc' = [cpc EXCEPT ![w] = "file_downloading"]
    /\ UNCHANGED <<puts, download_path, cache_path, inode, f, offset>>

\* Cache.file_downloading at line 301 of CacheListener.run
FileDownloading ==
  \E w \in Workers :
    /\ cpc[w] = "file_downloading"
    /\ cpc' = [cpc EXCEPT ![w] = IF download_path # NoFile THEN "get"
                                 ELSE "file_cached"]
    /\ UNCHANGED <<cache_queue, puts, download_path, cache_path, inode, f,
                   offset>>

\* Cache.file_cached with strict=True: a file whose hashes do not match the
\* item is removed
file_cached == cache_path # NoFile /\ Complete(inode[cache_path])

FileCachedAt(w, pc, next) ==
    /\ cpc[w] = pc
    /\ cpc' = [cpc EXCEPT ![w] = IF file_cached THEN "get" ELSE next]
    /\ cache_path' = IF file_cached THEN cache_path ELSE NoFile
    /\ inode' = Sweep(inode, {download_path, cache_path'}, f)
    /\ UNCHANGED <<cache_queue, puts, download_path, f, offset>>

\* line 309 of CacheListener.run; needs_to_be_cached is true for the item
FileCached == \E w \in Workers : FileCachedAt(w, "file_cached", "cache_file")

\* Cache.cache_file, called at line 318: file_cached once more
CacheFile == \E w \in Workers : FileCachedAt(w, "cache_file", "save_file")

\* Cache._save_file: urlopen raises URLError; CacheListener.run starts the
\* Timer that puts the item on the queue again
SaveFileUrlError ==
  \E w \in Workers :
    /\ cpc[w] = "save_file"
    /\ puts < MaxPuts
    /\ puts' = puts + 1
    /\ cache_queue' = cache_queue + 1
    /\ cpc' = [cpc EXCEPT ![w] = "get"]
    /\ UNCHANGED <<download_path, cache_path, inode, f, offset>>

\* Cache._write_file_from_url, line 114: open(path, 'wb') creates the
\* download file, or truncates the one that exists
WriteFileOpen ==
  \E w \in Workers :
    /\ cpc[w] = "save_file"
    /\ LET file == IF download_path # NoFile THEN download_path ELSE FreeInode
       IN /\ download_path' = file
          /\ f' = [f EXCEPT ![w] = file]
          /\ inode' = [inode EXCEPT ![file] = <<>>]
    /\ offset' = [offset EXCEPT ![w] = 0]
    /\ cpc' = [cpc EXCEPT ![w] = "write"]
    /\ UNCHANGED <<cache_queue, puts, cache_path>>

\* Cache._write_file_from_url, lines 117-123: one chunk is written
WriteFileChunk ==
  \E w \in Workers :
    /\ cpc[w] = "write"
    /\ offset[w] < NChunks
    /\ inode' = [inode EXCEPT ![f[w]] = WriteAt(@, offset[w] + 1)]
    /\ offset' = [offset EXCEPT ![w] = @ + 1]
    /\ UNCHANGED <<cache_queue, puts, cpc, download_path, cache_path, f>>

\* Cache._save_file, line 102, after the file was closed: shutil.move
\* renames the download file to the final name; without a download file it
\* raises FileNotFoundError, which run does not catch
SaveFileMove ==
  \E w \in Workers :
    /\ cpc[w] = "write"
    /\ offset[w] = NChunks
    /\ f' = [f EXCEPT ![w] = NoFile]
    /\ offset' = [offset EXCEPT ![w] = 0]
    /\ IF download_path = NoFile
         THEN /\ cpc' = [cpc EXCEPT ![w] = "dead"]
              /\ UNCHANGED <<download_path, cache_path>>
         ELSE /\ cpc' = [cpc EXCEPT ![w] = "get"]
              /\ cache_path' = download_path
              /\ download_path' = NoFile
    /\ inode' = Sweep(inode, {download_path', cache_path'}, f')
    /\ UNCHANGED <<cache_queue, puts>>

\* Cache._write_file_from_url, lines 113-128: url_handler.read or f.write
\* raises an OSError (the connection is reset or times out, the disk is
\* full); the file is closed, CachingIOError is raised, and neither
\* _save_file nor CacheListener.run catches it: the thread ends and the
\* download file stays
WriteFileRaises ==
  \E w \in Workers :
    /\ cpc[w] = "write"
    /\ offset[w] < NChunks
    /\ cpc' = [cpc EXCEPT ![w] = "dead"]
    /\ f' = [f EXCEPT ![w] = NoFile]
    /\ offset' = [offset EXCEPT ![w] = 0]
    /\ inode' = Sweep(inode, {download_path, cache_path}, f')
    /\ UNCHANGED <<cache_queue, puts, download_path, cache_path>>

(***************************************************************************)
(* PersistentStore (subscriptions/subscription_manager/persistence.py) and *)
(* the part of SubscriptionManager._handle_request_subscription_update     *)
(* that stores an update and forwards the reassembled tree.  A feed        *)
(* delivers an inline content set whose children are content items and     *)
(* remote content sets with one source each; constraints are left out.     *)
(***************************************************************************)
\* None for an xml_id: sqlite numbers the rows from 1
NoId == 0
\* select_root_id_where_uri never returns: the links lead back to a row
Loops == -1
XmlIds == 1..Cardinality(Uris)
\* text: <sources> has text before its first child (sources.text), which
\* depends on how the feed is indented
Placeholders == [tag : {"content-set"}, uri : Uris, text : BOOLEAN]
Elems == [tag : {"content-item"}, uri : {"a.jpg"}, text : {TRUE}] \cup Placeholders
ContentSets == [children : SeqUpTo(Elems, MaxChildren)]

StoreInit ==
  /\ xml_table = <<>>
  /\ uri_table = [u \in Uris |-> NoId]
  /\ xml_link = [child_id \in XmlIds |-> NoId]
  /\ xml_children = NoCds
  /\ forwarded = FALSE
  /\ store_busy = FALSE

\* PersistentStore.select_child_ids
select_child_ids(t, xml_id) == {child_id \in XmlIds : t.xml_link[child_id] = xml_id}

\* PersistentStore.select_root_id_where_uri: the while loop over parents
RECURSIVE Ascend(_, _, _)
Ascend(t, xml_id, seen) ==
  LET parent_id == t.xml_link[xml_id]
  IN IF parent_id = NoId THEN xml_id
     ELSE IF parent_id \in seen THEN Loops
     ELSE Ascend(t, parent_id, seen \cup {parent_id})

select_root_id_where_uri(t, u) ==
  IF t.uri[u] = NoId THEN NoId ELSE Ascend(t, t.uri[u], {t.uri[u]})

\* PersistentStore.store_descriptor_set: inline_xml is get_inline_xml(),
\* <<>> for a remote set, which is stored as the text ''
RECURSIVE store_descriptor_set(_, _, _, _), StoreLinks(_, _, _, _)
store_descriptor_set(t, u, inline_xml, children) ==
  LET found == t.uri[u]
      xml_id == IF found = NoId THEN Len(t.xml) + 1 ELSE found
      stored == [t EXCEPT
                   !.xml = IF found = NoId THEN Append(@, inline_xml)
                           ELSE IF inline_xml # <<>>
                                  THEN [@ EXCEPT ![found] = inline_xml]
                                  ELSE @,
                   !.uri = [v \in Uris |-> IF v = u THEN xml_id
                                           ELSE IF @[v] = xml_id THEN NoId
                                           ELSE @[v]]]
  IN [xml_id |-> xml_id, t |-> StoreLinks(stored, xml_id, children, 1)]

\* lines 223-238: the links for the remote children of the set
StoreLinks(t, xml_id, children, i) ==
  IF i > Len(children) THEN t
  ELSE IF children[i].tag = "content-set"
    THEN LET child == store_descriptor_set(t, children[i].uri, <<>>, <<>>)
         IN StoreLinks([child.t EXCEPT !.xml_link[child.xml_id] = xml_id],
                       xml_id, children, i + 1)
    ELSE StoreLinks(t, xml_id, children, i + 1)

\* PersistentStore.to_etree_elem: NoCds for None; ReplaceChildren is its
\* loop over the remote content sets, none for a return None inside it
RECURSIVE to_etree_elem(_, _), ReplaceChildren(_, _, _, _)
to_etree_elem(t, xml_id) ==
  IF xml_id \notin DOMAIN t.xml THEN NoCds
  ELSE IF t.xml[xml_id] = <<>> THEN NoCds
  ELSE LET etree == ReplaceChildren(t, xml_id, t.xml[xml_id][1].children, 1)
       IN IF etree.none THEN NoCds
          ELSE Some([tag |-> "content-set", children |-> etree.children])

ReplaceChildren(t, xml_id, children, i) ==
  IF i > Len(children) THEN [none |-> FALSE, children |-> <<>>]
  ELSE
    LET elem == children[i]
        rest == ReplaceChildren(t, xml_id, children, i + 1)
        child_id == t.uri[elem.uri]
        new_elem == to_etree_elem(t, child_id)
        replaced ==
          IF elem.tag # "content-set" THEN <<elem>>
          ELSE IF child_id = NoId THEN <<elem>>
          ELSE IF child_id \notin select_child_ids(t, xml_id) THEN <<elem>>
          ELSE IF new_elem = NoCds THEN <<>>
          ELSE new_elem
    IN IF elem.tag = "content-set" /\ ~elem.text
         THEN [none |-> TRUE, children |-> <<>>]
       ELSE IF rest.none THEN rest
       ELSE [none |-> FALSE, children |-> replaced \o rest.children]

\* SubscriptionManager._handle_request_subscription_update, lines 287 and
\* 318-337, for the update of the feed u with the content set set
StoreAndForward(u, set) ==
  /\ ~store_busy
  /\ LET t == store_descriptor_set(
                [xml |-> xml_table, uri |-> uri_table, xml_link |-> xml_link],
                u, Some(set), set.children).t
         root_xml_id == select_root_id_where_uri(t, u)
     IN /\ xml_table' = t.xml
        /\ uri_table' = t.uri
        /\ xml_link' = t.xml_link
        /\ IF root_xml_id = Loops
             THEN /\ store_busy' = TRUE
                  /\ UNCHANGED <<xml_children, forwarded>>
             ELSE /\ xml_children' = to_etree_elem(t, root_xml_id)
                  /\ forwarded' = (xml_children' # NoCds)
                  /\ UNCHANGED store_busy

SubscriptionUpdateStored ==
  \E u \in Uris, set \in ContentSets : StoreAndForward(u, set)

(***************************************************************************)
(* SchedulingManager.item_scheduling and the Timer that re-runs it         *)
(* (scheduling/manager.py), on top of the Display Manager.  The filters    *)
(* and the lottery decide on grounds this part does not hold (the time of  *)
(* day, the context store, a random draw), so what they return is chosen   *)
(* freely.  Time advances in steps of TickSeconds; a Timer holds the       *)
(* seconds it still waits and a renderer the age of its active_timestamp.  *)
(* The image has a preferred duration, the video has none.                 *)
(***************************************************************************)
DEFAULT_CONTENT_DURATION == 15
\* the default of _start_item_scheduling_timeout(timeout=5)
DEFAULT_TIMEOUT == 5
TickSeconds == DEFAULT_TIMEOUT
\* item_scheduling_timer = None
NoTimer == -1
DEFAULT_POSITION == "0"
\* the <preferred-duration> of the image, in seconds
PreferredDuration == 3 * TickSeconds
\* an older active_timestamp is as good as one of this age
PlayAgeCap == PreferredDuration

\* ContentItem.get_duration: the PreferredDurationConstraint, or None
get_duration(item) == IF item = "image" THEN <<PreferredDuration>> ELSE <<>>

\* the timeout of the same-item branch if it were the time that is left
TimeLeft(duration, time_difference) == duration - time_difference

\* the timeout line 493 passes for an active item that has time left,
\* int(time_difference); the ages are whole seconds, which int() keeps
SameItemTimeout(duration, time_difference) == time_difference

NoRun ==
  [branch |-> "none", time_difference |-> Unset, duration |-> Unset,
   timeout |-> NoTimer]

\* active_timestamp is read of the visible renderers of the dictionary only
Known(stamps, keys, objs) ==
  [u \in Uuids |->
     IF u \in keys /\ objs[u].is_visible THEN stamps[u] ELSE Unset]

TimerInit ==
  /\ item_scheduling_timer = NoTimer
  /\ scheduling_threads = 0
  /\ display_threads = {}
  /\ active_timestamp = [u \in Uuids |-> Unset]
  /\ last_run = NoRun

\* lines 425-431: nothing is left of the CDS
NothingLeft ==
  /\ RemoveItems
  /\ item_scheduling_timer' = DEFAULT_TIMEOUT
  /\ active_timestamp' = Known(active_timestamp, rmap', robj')
  /\ last_run' = [NoRun EXCEPT !.branch = "empty", !.timeout = DEFAULT_TIMEOUT]
  /\ UNCHANGED display_threads

\* lines 433-438: the lottery drew no item
NoItemDrawn ==
  /\ item_scheduling_timer' = DEFAULT_TIMEOUT
  /\ last_run' = [NoRun EXCEPT !.branch = "no item", !.timeout = DEFAULT_TIMEOUT]
  /\ UNCHANGED <<dispVars, display_threads, active_timestamp>>

\* lines 442-516 for the item drawn and the renderer r get_active_item
\* found at DEFAULT_POSITION (0: none)
ItemDrawn(new_item, r) ==
  LET new_item_duration ==
        IF get_duration(new_item) # <<>> THEN get_duration(new_item)[1]
        ELSE DEFAULT_CONTENT_DURATION
      same == r # 0 /\ new_item = robj[r].content_item
      active_item_duration == get_duration(new_item)
      time_difference == active_timestamp[r]
  IN IF same /\ active_item_duration = <<>>
       THEN /\ item_scheduling_timer' = DEFAULT_CONTENT_DURATION
            /\ last_run' = [NoRun EXCEPT !.branch = "same item, no duration",
                                         !.timeout = DEFAULT_CONTENT_DURATION]
            /\ UNCHANGED <<dispVars, display_threads, active_timestamp>>
     ELSE IF same /\ time_difference < active_item_duration[1]
       THEN /\ item_scheduling_timer' =
                 SameItemTimeout(active_item_duration[1], time_difference)
            /\ last_run' = [NoRun EXCEPT !.branch = "same item, time left",
                                         !.time_difference = time_difference,
                                         !.duration = active_item_duration[1],
                                         !.timeout = item_scheduling_timer']
            /\ UNCHANGED <<dispVars, display_threads, active_timestamp>>
     ELSE /\ display_threads' = display_threads \cup
                 {[item |-> new_item, position |-> DEFAULT_POSITION]}
          /\ item_scheduling_timer' = new_item_duration
          /\ last_run' = [NoRun EXCEPT !.branch = "display",
                                       !.timeout = new_item_duration]
          /\ UNCHANGED <<dispVars, active_timestamp>>

\* SchedulingManager.item_scheduling, run by its Timer when that is due or,
\* at any time, by main for an update it accepted; line 419 cancels the
\* Timer
ItemSchedulingRuns ==
  /\ dCleanup = NoPos
  /\ UNCHANGED scheduling_threads
  /\ \E filtered \in SUBSET Items :
       IF filtered = {} THEN NothingLeft
       ELSE \/ NoItemDrawn
            \/ \E new_item \in filtered :
                 \E r \in IF VisibleAt(DEFAULT_POSITION) = {} THEN {0}
                          ELSE VisibleAt(DEFAULT_POSITION) :
                   ItemDrawn(new_item, r)

\* DisplayManager.display_item: the thread it started runs _display_item
DisplayThreadRuns ==
  \E request \in display_threads :
    /\ DisplayItemAt(request.item, request.position)
    /\ display_threads' = display_threads \ {request}
    /\ UNCHANGED <<item_scheduling_timer, scheduling_threads,
                   active_timestamp, last_run>>

\* a renderer of the dictionary registers with its token
RendererRegisters ==
  /\ DispHandleRegister
  /\ dReply' # ErrorReply
  /\ UNCHANGED timerVars

\* a renderer of the dictionary reports finished_loading
RendererFinishedLoading ==
  /\ FinishedLoading
  /\ dTimers' # {}
  /\ UNCHANGED timerVars

\* _set_renderer_visible, line 300: active_timestamp = time.time()
RendererBecomesVisible ==
  /\ SetRendererVisible
  /\ active_timestamp' =
       Known([u \in Uuids |-> IF u \in dTimers \ dTimers' THEN 0
                              ELSE active_timestamp[u]], rmap', robj')
  /\ UNCHANGED <<item_scheduling_timer, scheduling_threads, display_threads,
                 last_run>>

RenderersCleanedUp ==
  /\ CleanupRenderers
  /\ active_timestamp' = Known(active_timestamp, rmap', robj')
  /\ UNCHANGED <<item_scheduling_timer, scheduling_threads, display_threads,
                 last_run>>

RendererStops ==
  /\ RendererStop
  /\ active_timestamp' = Known(active_timestamp, rmap', robj')
  /\ UNCHANGED <<item_scheduling_timer, scheduling_threads, display_threads,
                 last_run>>

\* _handle_request_preparation_failed, line 401: a thread is started for
\* item_scheduling once the renderer was removed
PreparationFailedReported ==
  /\ PreparationFailed
  /\ scheduling_threads < MaxWaiting
  /\ scheduling_threads' =
       IF rmap' # rmap THEN scheduling_threads + 1 ELSE scheduling_threads
  /\ UNCHANGED <<item_scheduling_timer, display_threads, active_timestamp,
                 last_run>>

\* TickSeconds pass; a Timer that is due runs first
TimePasses ==
  /\ item_scheduling_timer # 0
  /\ item_scheduling_timer' =
       IF item_scheduling_timer = NoTimer THEN NoTimer
       ELSE item_scheduling_timer - TickSeconds
  /\ active_timestamp' =
       [u \in Uuids |->
          IF active_timestamp[u] = Unset THEN Unset
          ELSE IF active_timestamp[u] + TickSeconds > PlayAgeCap THEN PlayAgeCap
          ELSE active_timestamp[u] + TickSeconds]
  /\ UNCHANGED <<dispVars, scheduling_threads, display_threads, last_run>>

(***************************************************************************)
(* PullHandler (helpers/base_classes/pull_handler.py), the base of the     *)
(* file and the HTTP subscription handler.  The Manager sends params in    *)
(* reply to register, which a handler sends once; every read ends in _fail *)
(* or in _success.  A Timer is the tenths of a second it was started with. *)
(***************************************************************************)
DEFAULT_WINDOW == 60
\* conversions._TIME_INTERVALS
TIME_INTERVALS ==
  [SEC |-> 1, SECOND |-> 1, MIN |-> 60, MINUTE |-> 60, HR |-> 3600,
   HOUR |-> 3600]
\* an interval string: its digits and its unit, "" without one
Interval(value, unit) == [value |-> value, unit |-> unit]
DEFAULT_REFRESH_RATE == Interval(1, "HOUR")
\* the 'refresh' param of the handler, <<>> without one
RefreshParams ==
  {<<>>, <<Interval(0, "")>>, <<Interval(30, "")>>, <<Interval(1, "MINUTE")>>,
   <<Interval(90, "SEC")>>, <<Interval(200, "SECOND")>>,
   <<Interval(1000, "")>>}
\* refresh_rate before set_refresh_rate, read_timer = None
NoRate == -1

\* conversions.time_interval_in_seconds
time_interval_in_seconds(in_str) ==
  in_str.value * TIME_INTERVALS[IF in_str.unit = "" THEN "SECOND" ELSE in_str.unit]

\* Timer(timer_duration, self.read) for a duration in seconds
Tenths(seconds) == 10 * seconds
\* start_read_timer(0.1)
NearImmediate == 1

Smaller(a, b) == IF a <= b THEN a ELSE b

\* a backoff that doubles without a limit
DoubledWindow(w, rate) == w * 2

\* _fail, line 69: min(self.window * 2, self.refresh_rate)
FailedWindow(w, rate) == Smaller(w * 2, rate)

PullInit ==
  /\ window = DEFAULT_WINDOW
  /\ refresh_rate = NoRate
  /\ read_timer = NoTimer
  /\ last_read = FALSE
  /\ outcomes = <<>>

\* PullHandler._handle_reply_params with set_refresh_rate, for the params
\* of the reply to register: read_timer is None, so lines 100-106 are
\* skipped
PullHandleReplyParams ==
  /\ read_timer = NoTimer
  /\ \E refresh \in RefreshParams :
       refresh_rate' =
         time_interval_in_seconds(IF refresh = <<>> THEN DEFAULT_REFRESH_RATE
                                  ELSE refresh[1])
  /\ read_timer' = NearImmediate
  /\ UNCHANGED <<window, last_read, outcomes>>

\* the Timer runs read(), which fails: _fail
ReadFails ==
  /\ read_timer # NoTimer
  /\ Len(outcomes) < MaxReads
  /\ window' = FailedWindow(window, refresh_rate)
  /\ read_timer' = Tenths(window')
  /\ outcomes' = Append(outcomes, "failed")
  /\ UNCHANGED <<refresh_rate, last_read>>

\* the Timer runs read(), which puts the update on the request queue:
\* _success
ReadSucceeds ==
  /\ read_timer # NoTimer
  /\ Len(outcomes) < MaxReads
  /\ last_read' = TRUE
  /\ window' = DEFAULT_WINDOW
  /\ read_timer' = Tenths(refresh_rate)
  /\ outcomes' = Append(outcomes, "read")
  /\ UNCHANGED refresh_rate

(***************************************************************************)
(* _SimplePerItemRatioAllocator._allocate (scheduling/schedulers/lottery/  *)
(* ratio_allocator.py).  The tickets are counted; the ratio of an item is  *)
(* its share of the sum of the shares, so that the ratios add up to 1, and *)
(* the list of pairs is in the order random.shuffle left it in.            *)
(***************************************************************************)
RECURSIVE SumOf(_)
SumOf(seq) == IF seq = <<>> THEN 0 ELSE Head(seq) + SumOf(Tail(seq))

\* the lists of shares of at most n items
RatioPairs(n) ==
  UNION {[1..k -> 1..MaxShare] : k \in 1..Smaller(n, MaxRatioItems)}

\* round(num / den) of Python 3, which rounds a half to the even neighbour
round(num, den) ==
  LET q == num \div den
      r == num % den
  IN IF 2 * r < den THEN q
     ELSE IF 2 * r > den THEN q + 1
     ELSE IF q % 2 = 0 THEN q ELSE q + 1

Larger(a, b) == IF a >= b THEN a ELSE b

\* lines 80-86: the tickets of an item
TicketsForItem(total, share, shares, left) ==
  Larger(Smaller(round(total * share, shares), left), 1)

AllocInit ==
  /\ total_ticket_count = 0
  /\ tickets_for_allocation = 0
  /\ content_item_ratio_pairs = <<>>
  /\ allocated_tickets = <<>>
  /\ ready = FALSE

\* LotteryTicketAllocator.__init__ and lines 63-73 of _allocate: the empty
\* tickets and the shuffled pairs
AllocatorStarts ==
  /\ content_item_ratio_pairs = <<>>
  /\ \E n \in 1..MaxTickets :
       /\ total_ticket_count' = n
       /\ tickets_for_allocation' = n
       /\ \E pairs \in RatioPairs(n) : content_item_ratio_pairs' = pairs
  /\ allocated_tickets' = <<>>
  /\ UNCHANGED ready

\* one turn of the loop of lines 75-106, with line 108 after the last one
AllocateToItem ==
  /\ ~ready
  /\ Len(allocated_tickets) < Len(content_item_ratio_pairs)
  /\ LET i == Len(allocated_tickets) + 1
         tickets_for_item ==
           TicketsForItem(total_ticket_count, content_item_ratio_pairs[i],
                          SumOf(content_item_ratio_pairs),
                          tickets_for_allocation)
     IN /\ tickets_for_allocation' = tickets_for_allocation - tickets_for_item
        /\ allocated_tickets' = Append(allocated_tickets, tickets_for_item)
        /\ ready' = (\/ tickets_for_allocation' = 0
                     \/ i = Len(content_item_ratio_pairs))
  /\ UNCHANGED <<total_ticket_count, content_item_ratio_pairs>>

(***************************************************************************)
(* get_scaled_ratio (scheduling/schedulers/lottery/ratio_allocator.py) for *)
(* an item whose parent has the scaled ratio 1.  A ratio attribute is a    *)
(* whole number of RatioUnit-ths; the quotients the function computes are  *)
(* kept as fractions <<numerator, denominator>>.                           *)
(***************************************************************************)
\* PlaybackConstraint.UNSCALED_RATIO_DEFAULT is None
NoRatio == <<>>

\* the unscaled ratios of an item and its siblings: a ratio or None each
Families ==
  UNION {[1..n -> (0..MaxRatio) \cup {Unset}] : n \in 1..MaxFamily}

Fraction(num, den) == <<num, den>>

SameFraction(a, b) == a[1] * b[2] = b[1] * a[2]

\* lines 209-230: the ratios that are specified, and their sum
SpecifiedRatios(ratios) == SelectSeq(ratios, LAMBDA ratio : ratio # Unset)

\* line 238
SpecifiedSumOverAll(specified_ratio_sum, ratios) ==
  Fraction(specified_ratio_sum, RatioUnit * Len(ratios))

\* the mean of the specified ratios
MeanOfSpecified(specified_ratio_sum, ratios) ==
  Fraction(specified_ratio_sum, RatioUnit * Len(SpecifiedRatios(ratios)))

\* lines 234-238: default_ratio stays unbound when every ratio is specified
DefaultRatio(ratios) ==
  LET specified_ratio_sum == SumOf(SpecifiedRatios(ratios))
      unspecified_ratio_count == Len(ratios) - Len(SpecifiedRatios(ratios))
  IN IF unspecified_ratio_count > 0 /\ specified_ratio_sum < RatioUnit
       THEN Fraction(RatioUnit - specified_ratio_sum,
                     RatioUnit * unspecified_ratio_count)
     ELSE IF unspecified_ratio_count > 0
       THEN SpecifiedSumOverAll(specified_ratio_sum, ratios)
     ELSE NoRatio

\* lines 241-245: all_ratios_sum
AllRatiosSum(ratios) ==
  LET specified_ratio_sum == SumOf(SpecifiedRatios(ratios))
      unspecified_ratio_count == Len(ratios) - Len(SpecifiedRatios(ratios))
      default == DefaultRatio(ratios)
  IN IF unspecified_ratio_count > 0
       THEN Fraction(specified_ratio_sum * default[2]
                       + RatioUnit * unspecified_ratio_count * default[1],
                     RatioUnit * default[2])
     ELSE Fraction(specified_ratio_sum, RatioUnit)

\* lines 257-265 with scale_factor = 1 / all_ratios_sum and parent_ratio = 1
SiblingScaledRatio(ratios, i) ==
  LET unscaled == IF ratios[i] # Unset THEN Fraction(ratios[i], RatioUnit)
                  ELSE DefaultRatio(ratios)
      sum == AllRatiosSum(ratios)
  IN Fraction(unscaled[1] * sum[2], unscaled[2] * sum[1])

RatioInit ==
  /\ all_ratios = <<>>
  /\ default_ratio = NoRatio
  /\ scaled_ratio = <<>>

\* ContentDescriptorSet.__init__: the children of a content set are parsed,
\* each with the ratio of its <playback> constraint or without one
FamilyParsed ==
  /\ all_ratios = <<>>
  /\ \E ratios \in Families : all_ratios' = ratios
  /\ UNCHANGED <<default_ratio, scaled_ratio>>

\* get_scaled_ratio for the first of the items, nothing being cached yet;
\* line 246 raises ZeroDivisionError when all_ratios_sum is 0
GetScaledRatio ==
  /\ all_ratios # <<>>
  /\ scaled_ratio = <<>>
  /\ AllRatiosSum(all_ratios)[1] # 0
  /\ default_ratio' = DefaultRatio(all_ratios)
  /\ scaled_ratio' = [i \in 1..Len(all_ratios) |->
                        SiblingScaledRatio(all_ratios, i)]
  /\ UNCHANGED all_ratios

(***************************************************************************)
(* item_scheduling (scheduling/manager.py) inside the wrapper of           *)
(* lock_counter.py, once a CDS has been received: the body cancels the     *)
(* Timer self.item_scheduling_timer refers to (line 419) and every way out *)
(* of it starts a new one (lines 430, 437, 483, 493, 514), which calls     *)
(* item_scheduling (the wrapper) in a thread of its own.                   *)
(***************************************************************************)
RerunInit ==
  /\ pending_timers = 0
  /\ current_pending = FALSE

\* _stop_item_scheduling_timeout: Timer.cancel on the Timer referred to
TimersAfterCancel == IF current_pending THEN pending_timers - 1
                     ELSE pending_timers

\* the main loop (line 551), the thread of a sensor update or of a
\* preparation_failed request calls item_scheduling
CallerArrives ==
  /\ WrapperCall
  /\ UNCHANGED rerunVars

\* a pending Timer runs out: its thread calls item_scheduling
ItemSchedulingTimerRuns ==
  /\ pending_timers > 0
  /\ WrapperCall
  /\ pending_timers' = pending_timers - 1
  /\ \E current \in BOOLEAN :
       /\ current => current_pending
       /\ ~current => pending_timers > (IF current_pending THEN 1 ELSE 0)
       /\ current_pending' = (current_pending /\ ~current)

\* lines 29-36 and 415-419: the body starts and cancels the Timer
BodyStarts ==
  /\ WrapperEnterBody
  /\ pending_timers' = TimersAfterCancel
  /\ current_pending' = FALSE

\* _start_item_scheduling_timeout at the end of the body (the Timer referred
\* to is cancelled, a new one is started), the return of line 36 and the
\* load of line 37
BodyEnds ==
  /\ WrapperBodyReturns
  /\ pending_timers' = TimersAfterCancel + 1
  /\ current_pending' = TRUE

(***************************************************************************)
(* LotterySchedulerPipeline.get_items_to_schedule (schedulers/lottery/     *)
(* pipeline.py) and the thread of its one allocator, _RatioAllocator       *)
(* (DEFAULT_TICKET_ALLOCATORS).  A poll of the loop of lines 182-183 that  *)
(* finds the allocator not ready changes nothing.                          *)
(***************************************************************************)
WaitInit ==
  /\ allocator_thread = "none"
  /\ scheduler_pc = "idle"

\* lines 166-177 and _start_lottery_ticket_allocators: item_scheduling calls
\* get_items_to_schedule for the filtered set, the allocator is created
\* (ready = False) and its thread is started
GetItemsToSchedule ==
  /\ scheduler_pc = "idle"
  /\ all_ratios # <<>>
  /\ scheduler_pc' = "waiting"
  /\ allocator_thread' = "started"
  /\ UNCHANGED <<ratioVars, allocVars>>

\* _RatioAllocator.allocate_tickets, lines 127-152: the scaled ratio of
\* every item is computed
AllocatorScalesRatios ==
  /\ allocator_thread = "started"
  /\ GetScaledRatio
  /\ allocator_thread' = "allocating"
  /\ UNCHANGED <<scheduler_pc, allocVars>>

\* line 141 with a ZeroDivisionError from line 246 of get_scaled_ratio: the
\* exception ends run() and the thread, ready stays False
AllocatorRaises ==
  /\ allocator_thread = "started"
  /\ AllRatiosSum(all_ratios)[1] = 0
  /\ allocator_thread' = "raised"
  /\ UNCHANGED <<scheduler_pc, ratioVars, allocVars>>

\* line 157: _allocate ends with ready = True (line 108) and run() returns
AllocatorReady ==
  /\ allocator_thread = "allocating"
  /\ ready' = TRUE
  /\ allocator_thread' = "ended"
  /\ UNCHANGED <<scheduler_pc, ratioVars, total_ticket_count,
                 tickets_for_allocation, content_item_ratio_pairs,
                 allocated_tickets>>

\* lines 182-212: a poll finds every allocator ready, the tickets are
\* grabbed and the items of the winners are returned
GetItemsReturns ==
  /\ scheduler_pc = "waiting"
  /\ ready
  /\ scheduler_pc' = "returned"
  /\ UNCHANGED <<allocator_thread, ratioVars, allocVars>>

(***************************************************************************)
(* DisplayManager (scheduling/display.py): the renderers that leave the    *)
(* dictionary between their finished_loading and the run of the Timer that *)
(* _handle_request_finished_loading started for them.                      *)
(***************************************************************************)
FadeInit == removed_in_fade = {}

\* the renderers with a pending Timer that the step takes out of the
\* dictionary
RemovedInFade == removed_in_fade \cup ((rmap \ rmap') \cap dTimers)

\* DisplayManager.remove_item (lines 635-647) during a fade delay
RemoveItemInFade == RemoveItem /\ removed_in_fade' = RemovedInFade

\* DisplayManager.remove_items (lines 649-658) during a fade delay
RemoveItemsInFade == RemoveItems /\ removed_in_fade' = RemovedInFade

\* DisplayManager._handle_request_preparation_failed during a fade delay
PreparationFailedInFade == PreparationFailed /\ removed_in_fade' = RemovedInFade

\* the Timer of lines 360-364 runs _set_renderer_visible(renderer) with the
\* renderer object it was given, whether the dictionary still holds it or not
DelayedTransition ==
  /\ SetRendererVisible
  /\ removed_in_fade' = removed_in_fade \cap dTimers'

Init ==
  /\ LockInit
  /\ DispInit
  /\ MgrInit
  /\ ReqInit
  /\ SchedInit
  /\ CacheInit
  /\ StoreInit
  /\ FilterInit
  /\ TimerInit
  /\ PullInit
  /\ AllocInit
  /\ RatioInit
  /\ RerunInit
  /\ WaitInit
  /\ FadeInit

NextLock ==
  \/ WrapperCall /\ UNCHANGED <<dispVars, mgrVars, reqVars, restVars>>
  \/ WrapperIncStore /\ UNCHANGED <<dispVars, mgrVars, reqVars, restVars>>
  \/ WrapperTest /\ UNCHANGED <<dispVars, mgrVars, reqVars, restVars>>
  \/ WrapperGiveUp /\ UNCHANGED <<dispVars, mgrVars, reqVars, restVars>>
  \/ WrapperEnterBody /\ UNCHANGED <<dispVars, mgrVars, reqVars, restVars>>
  \/ WrapperBodyReturns /\ UNCHANGED <<dispVars, mgrVars, reqVars, restVars>>
  \/ WrapperDecStore /\ UNCHANGED <<dispVars, mgrVars, reqVars, restVars>>

SpecLock == Init /\ [][NextLock]_vars

\* The scheduler runs every thread that can take a step: a thread inside the
\* wrapper goes on whenever it can (the body returns, a poll that finds the
\* flag at most 1 leaves the loop).  No caller is obliged to arrive.
LockFairness ==
  \A t \in Threads :
    WF_vars(NextLock /\ lpc[t] # "idle" /\ lpc'[t] # lpc[t])

SpecLockFair == Init /\ [][NextLock]_vars /\ LockFairness

NextLockRaise ==
  \/ WrapperCall /\ UNCHANGED <<dispVars, mgrVars, reqVars, restVars>>
  \/ WrapperIncStore /\ UNCHANGED <<dispVars, mgrVars, reqVars, restVars>>
  \/ WrapperTest /\ UNCHANGED <<dispVars, mgrVars, reqVars, restVars>>
  \/ WrapperGiveUp /\ UNCHANGED <<dispVars, mgrVars, reqVars, restVars>>
  \/ WrapperEnterBody /\ UNCHANGED <<dispVars, mgrVars, reqVars, restVars>>
  \/ WrapperBodyReturns /\ UNCHANGED <<dispVars, mgrVars, reqVars, restVars>>
  \/ WrapperDecStore /\ UNCHANGED <<dispVars, mgrVars, reqVars, restVars>>
  \/ WrapperBodyRaises /\ UNCHANGED <<dispVars, mgrVars, reqVars, restVars>>

SpecLockRaise == Init /\ [][NextLockRaise]_vars

NextDisplay ==
  \/ DisplayItem /\ UNCHANGED <<lockVars, mgrVars, reqVars, restVars>>
  \/ DispHandleRegister /\ UNCHANGED <<lockVars, mgrVars, reqVars, restVars>>
  \/ FinishedLoading /\ UNCHANGED <<lockVars, mgrVars, reqVars, restVars>>
  \/ SetRendererVisible /\ UNCHANGED <<lockVars, mgrVars, reqVars, restVars>>
  \/ CleanupRenderers /\ UNCHANGED <<lockVars, mgrVars, reqVars, restVars>>
  \/ RendererStop /\ UNCHANGED <<lockVars, mgrVars, reqVars, restVars>>
  \/ PreparationFailed /\ UNCHANGED <<lockVars, mgrVars, reqVars, restVars>>
  \/ RemoveItem /\ UNCHANGED <<lockVars, mgrVars, reqVars, restVars>>
  \/ RemoveItems /\ UNCHANGED <<lockVars, mgrVars, reqVars, restVars>>

SpecDisplay == Init /\ [][NextDisplay]_vars

NextMgr ==
  \/ ManagerStart /\ UNCHANGED <<lockVars, dispVars, reqVars, restVars>>
  \/ Register /\ UNCHANGED <<lockVars, dispVars, reqVars, restVars>>
  \/ RequestPing /\ UNCHANGED <<lockVars, dispVars, reqVars, restVars>>
  \/ RequestSensorUpdate /\ UNCHANGED <<lockVars, dispVars, reqVars, restVars>>
  \/ RequestSubscriptionUpdate /\ UNCHANGED <<lockVars, dispVars, reqVars, restVars>>
  \/ HandlerExits /\ UNCHANGED <<lockVars, dispVars, reqVars, restVars>>
  \/ Tick /\ UNCHANGED <<lockVars, dispVars, reqVars, restVars>>
  \/ CheckerBegin /\ UNCHANGED <<lockVars, dispVars, reqVars, restVars>>
  \/ CheckHandlers /\ UNCHANGED <<lockVars, dispVars, reqVars, restVars>>
  \/ ReplacementTimer /\ UNCHANGED <<lockVars, dispVars, reqVars, restVars>>
  \/ RestartZmqStop /\ UNCHANGED <<lockVars, dispVars, reqVars, restVars>>
  \/ RestartZmqStart /\ UNCHANGED <<lockVars, dispVars, reqVars, restVars>>

SpecMgr == Init /\ [][NextMgr]_vars

\* the registration of subprocesses on the two reply sockets: the handlers of
\* a Manager and the renderers of the Display Manager
NextReg ==
  \/ ManagerStart /\ UNCHANGED <<lockVars, dispVars, reqVars, restVars>>
  \/ Register /\ UNCHANGED <<lockVars, dispVars, reqVars, restVars>>
  \/ DisplayItem /\ UNCHANGED <<lockVars, mgrVars, reqVars, restVars>>
  \/ DispHandleRegister /\ UNCHANGED <<lockVars, mgrVars, reqVars, restVars>>

SpecReg == Init /\ [][NextReg]_vars

NextReq ==
  \/ HandlerStart /\ UNCHANGED <<lockVars, dispVars, mgrVars, restVars>>
  \/ PutRequest /\ UNCHANGED <<lockVars, dispVars, mgrVars, restVars>>
  \/ HandlerStop /\ UNCHANGED <<lockVars, dispVars, mgrVars, restVars>>
  \/ QueueGet /\ UNCHANGED <<lockVars, dispVars, mgrVars, restVars>>
  \/ QueueEmpty /\ UNCHANGED <<lockVars, dispVars, mgrVars, restVars>>
  \/ PollTimeout /\ UNCHANGED <<lockVars, dispVars, mgrVars, restVars>>
  \/ PollTerminate /\ UNCHANGED <<lockVars, dispVars, mgrVars, restVars>>
  \/ PollEmptyReply /\ UNCHANGED <<lockVars, dispVars, mgrVars, restVars>>
  \/ PollReply /\ UNCHANGED <<lockVars, dispVars, mgrVars, restVars>>

SpecReq == Init /\ [][NextReq]_vars

NextSched ==
  \/ ParserSubscriptionUpdate /\ UNCHANGED <<coreVars, cacheVars, storeVars, filterVars, laterVars>>
  \/ Main /\ UNCHANGED <<coreVars, cacheVars, storeVars, filterVars, laterVars>>
  \/ ItemScheduling /\ UNCHANGED <<coreVars, cacheVars, storeVars, filterVars, laterVars>>

SpecSched == Init /\ [][NextSched]_vars

\* the Subscription Manager with its request thread, which empties the
\* queue to the scheduler, and without the clock: handlers fail by exiting
\* or, delayed by the stop of another handler, by not registering in time.
\* A handler sends its updates with the token it was started with; the
\* renewal of tokens by registration is the subject of SpecMgr and SpecReg.
NextUri ==
  \/ ManagerStart /\ UNCHANGED <<lockVars, dispVars, reqVars, restVars>>
  \/ RequestSubscriptionUpdate /\ UNCHANGED <<lockVars, dispVars, reqVars, restVars>>
  \/ RequestToScheduler /\ UNCHANGED <<lockVars, dispVars, reqVars, restVars>>
  \/ HandlerExits /\ UNCHANGED <<lockVars, dispVars, reqVars, restVars>>
  \/ CheckerBegin /\ UNCHANGED <<lockVars, dispVars, reqVars, restVars>>
  \/ CheckHandlers /\ UNCHANGED <<lockVars, dispVars, reqVars, restVars>>
  \/ ReplacementTimer /\ UNCHANGED <<lockVars, dispVars, reqVars, restVars>>

SpecUri == Init /\ [][NextUri]_vars

NextCache ==
  \/ CacheCds /\ UNCHANGED <<coreVars, schedVars, storeVars, filterVars, laterVars>>
  \/ CacheQueueGet /\ UNCHANGED <<coreVars, schedVars, storeVars, filterVars, laterVars>>
  \/ FileDownloading /\ UNCHANGED <<coreVars, schedVars, storeVars, filterVars, laterVars>>
  \/ FileCached /\ UNCHANGED <<coreVars, schedVars, storeVars, filterVars, laterVars>>
  \/ CacheFile /\ UNCHANGED <<coreVars, schedVars, storeVars, filterVars, laterVars>>
  \/ SaveFileUrlError /\ UNCHANGED <<coreVars, schedVars, storeVars, filterVars, laterVars>>
  \/ WriteFileOpen /\ UNCHANGED <<coreVars, schedVars, storeVars, filterVars, laterVars>>
  \/ WriteFileChunk /\ UNCHANGED <<coreVars, schedVars, storeVars, filterVars, laterVars>>
  \/ SaveFileMove /\ UNCHANGED <<coreVars, schedVars, storeVars, filterVars, laterVars>>

SpecCache == Init /\ [][NextCache]_vars

NextCacheFail ==
  \/ CacheCds /\ UNCHANGED <<coreVars, schedVars, storeVars, filterVars, laterVars>>
  \/ CacheQueueGet /\ UNCHANGED <<coreVars, schedVars, storeVars, filterVars, laterVars>>
  \/ FileDownloading /\ UNCHANGED <<coreVars, schedVars, storeVars, filterVars, laterVars>>
  \/ FileCached /\ UNCHANGED <<coreVars, schedVars, storeVars, filterVars, laterVars>>
  \/ CacheFile /\ UNCHANGED <<coreVars, schedVars, storeVars, filterVars, laterVars>>
  \/ SaveFileUrlError /\ UNCHANGED <<coreVars, schedVars, storeVars, filterVars, laterVars>>
  \/ WriteFileOpen /\ UNCHANGED <<coreVars, schedVars, storeVars, filterVars, laterVars>>
  \/ WriteFileChunk /\ UNCHANGED <<coreVars, schedVars, storeVars, filterVars, laterVars>>
  \/ WriteFileRaises /\ UNCHANGED <<coreVars, schedVars, storeVars, filterVars, laterVars>>
  \/ SaveFileMove /\ UNCHANGED <<coreVars, schedVars, storeVars, filterVars, laterVars>>

SpecCacheFail == Init /\ [][NextCacheFail]_vars

NextStore ==
  \/ SubscriptionUpdateStored /\ UNCHANGED <<coreVars, schedVars, cacheVars, filterVars, laterVars>>

SpecStore == Init /\ [][NextStore]_vars

NextFilter ==
  \/ Surroundings /\ UNCHANGED <<coreVars, schedVars, cacheVars, storeVars, laterVars>>
  \/ ContentSetArrives /\ UNCHANGED <<coreVars, schedVars, cacheVars, storeVars, laterVars>>
  \/ PipelineOnce /\ UNCHANGED <<coreVars, schedVars, cacheVars, storeVars, laterVars>>
  \/ PipelineTwice /\ UNCHANGED <<coreVars, schedVars, cacheVars, storeVars, laterVars>>

SpecFilter == Init /\ [][NextFilter]_vars

NextPriority ==
  \/ ContentSetArrives /\ UNCHANGED <<coreVars, schedVars, cacheVars, storeVars, laterVars>>
  \/ PriorityFilterRuns /\ UNCHANGED <<coreVars, schedVars, cacheVars, storeVars, laterVars>>
  \/ ConditionKeepItem /\ UNCHANGED <<coreVars, schedVars, cacheVars, storeVars, laterVars>>

SpecPriority == Init /\ [][NextPriority]_vars

otherThanTimer ==
  <<lockVars, mgrVars, reqVars, schedVars, cacheVars, storeVars, filterVars,
    pullVars, allocVars, finalVars>>

NextTimer ==
  \/ ItemSchedulingRuns /\ UNCHANGED otherThanTimer
  \/ DisplayThreadRuns /\ UNCHANGED otherThanTimer
  \/ RendererRegisters /\ UNCHANGED otherThanTimer
  \/ RendererFinishedLoading /\ UNCHANGED otherThanTimer
  \/ RendererBecomesVisible /\ UNCHANGED otherThanTimer
  \/ RenderersCleanedUp /\ UNCHANGED otherThanTimer
  \/ RendererStops /\ UNCHANGED otherThanTimer
  \/ TimePasses /\ UNCHANGED otherThanTimer

SpecTimer == Init /\ [][NextTimer]_vars

NextFailed ==
  \/ DisplayItem /\ UNCHANGED <<otherThanTimer, timerVars>>
  \/ DispHandleRegister /\ UNCHANGED <<otherThanTimer, timerVars>>
  \/ FinishedLoading /\ UNCHANGED <<otherThanTimer, timerVars>>
  \/ SetRendererVisible /\ UNCHANGED <<otherThanTimer, timerVars>>
  \/ CleanupRenderers /\ UNCHANGED <<otherThanTimer, timerVars>>
  \/ RendererStops /\ UNCHANGED otherThanTimer
  \/ PreparationFailedReported /\ UNCHANGED otherThanTimer

SpecFailed == Init /\ [][NextFailed]_vars

NextRedisplay ==
  \/ DisplayItemAgain /\ UNCHANGED <<lockVars, mgrVars, reqVars, restVars>>
  \/ DispHandleRegister /\ UNCHANGED <<lockVars, mgrVars, reqVars, restVars>>
  \/ FinishedLoading /\ UNCHANGED <<lockVars, mgrVars, reqVars, restVars>>
  \/ SetRendererVisible /\ UNCHANGED <<lockVars, mgrVars, reqVars, restVars>>
  \/ CleanupRenderers /\ UNCHANGED <<lockVars, mgrVars, reqVars, restVars>>
  \/ RendererStop /\ UNCHANGED <<lockVars, mgrVars, reqVars, restVars>>

SpecRedisplay == Init /\ [][NextRedisplay]_vars

otherThanFade ==
  <<lockVars, mgrVars, reqVars, schedVars, cacheVars, storeVars, filterVars,
    timerVars, pullVars, allocVars, ratioVars, rerunVars, waitVars>>

NextFade ==
  \/ DisplayItem /\ UNCHANGED <<otherThanFade, fadeVars>>
  \/ DispHandleRegister /\ UNCHANGED <<otherThanFade, fadeVars>>
  \/ FinishedLoading /\ UNCHANGED <<otherThanFade, fadeVars>>
  \/ DelayedTransition /\ UNCHANGED otherThanFade
  \/ CleanupRenderers /\ UNCHANGED <<otherThanFade, fadeVars>>
  \/ RendererStop /\ UNCHANGED <<otherThanFade, fadeVars>>
  \/ PreparationFailedInFade /\ UNCHANGED otherThanFade
  \/ RemoveItemInFade /\ UNCHANGED otherThanFade
  \/ RemoveItemsInFade /\ UNCHANGED otherThanFade

SpecFade == Init /\ [][NextFade]_vars

otherThanLater == <<coreVars, schedVars, cacheVars, storeVars, filterVars>>

NextPull ==
  \/ PullHandleReplyParams /\ UNCHANGED <<otherThanLater, timerVars, allocVars, finalVars>>
  \/ ReadFails /\ UNCHANGED <<otherThanLater, timerVars, allocVars, finalVars>>
  \/ ReadSucceeds /\ UNCHANGED <<otherThanLater, timerVars, allocVars, finalVars>>

SpecPull == Init /\ [][NextPull]_vars

NextAlloc ==
  \/ AllocatorStarts /\ UNCHANGED <<otherThanLater, timerVars, pullVars, finalVars>>
  \/ AllocateToItem /\ UNCHANGED <<otherThanLater, timerVars, pullVars, finalVars>>

SpecAlloc == Init /\ [][NextAlloc]_vars

\* everything but the components that were modelled last
otherThanFinal == <<otherThanLater, timerVars, pullVars, allocVars>>

NextRatio ==
  \/ FamilyParsed /\ UNCHANGED <<otherThanFinal, rerunVars, waitVars, fadeVars>>
  \/ GetScaledRatio /\ UNCHANGED <<otherThanFinal, rerunVars, waitVars, fadeVars>>

SpecRatio == Init /\ [][NextRatio]_vars

otherThanRerun ==
  <<dispVars, mgrVars, reqVars, schedVars, cacheVars, storeVars, filterVars,
    timerVars, pullVars, allocVars, ratioVars, waitVars, fadeVars>>

NextRerun ==
  \/ CallerArrives /\ UNCHANGED otherThanRerun
  \/ ItemSchedulingTimerRuns /\ UNCHANGED otherThanRerun
  \/ WrapperIncStore /\ UNCHANGED <<rerunVars, otherThanRerun>>
  \/ WrapperTest /\ UNCHANGED <<rerunVars, otherThanRerun>>
  \/ WrapperGiveUp /\ UNCHANGED <<rerunVars, otherThanRerun>>
  \/ BodyStarts /\ UNCHANGED otherThanRerun
  \/ BodyEnds /\ UNCHANGED otherThanRerun
  \/ WrapperDecStore /\ UNCHANGED <<rerunVars, otherThanRerun>>

SpecRerun == Init /\ [][NextRerun]_vars

otherThanWait ==
  <<coreVars, schedVars, cacheVars, storeVars, filterVars, timerVars,
    pullVars, rerunVars, fadeVars>>

NextWait ==
  \/ FamilyParsed /\ UNCHANGED <<otherThanWait, allocVars, waitVars>>
  \/ GetItemsToSchedule /\ UNCHANGED otherThanWait
  \/ AllocatorScalesRatios /\ UNCHANGED otherThanWait
  \/ AllocatorRaises /\ UNCHANGED otherThanWait
  \/ AllocatorReady /\ UNCHANGED otherThanWait
  \/ GetItemsReturns /\ UNCHANGED otherThanWait

SpecWait == Init /\ [][NextWait]_vars

\* every thread that can take a step takes it
SpecWaitFair == SpecWait /\ WF_vars(NextWait)

(***************************************************************************)
(* Claims about the counter lock.                                          *)
(***************************************************************************)
Executing == {t \in Threads : lpc[t] = "body"}
Waiting == {t \in Threads : lpc[t] = "wait" /\ flag > 1}

\* C2: at most one thread executes the body of item_scheduling at any time.
C2_MutualExclusion == Cardinality(Executing) <= 1

\* C3: at most one caller is blocked waiting for the executor to finish, and
\* a caller that arrived while an executor and a waiter exist never runs the
\* body.
C3_AtMostOneWaiter == Cardinality(Waiting) <= 1

\* C32: a caller that waits in the loop of the wrapper eventually runs the
\* body once the executor has finished, whatever callers arrive meanwhile.
C32_WaiterEventuallyRuns ==
  \A t \in Threads : (lpc[t] = "wait") ~> (lpc[t] = "body")

\* C33: when the body of item_scheduling raises an exception, the lock
\* counter is restored to its value before the call: the call that ends
\* takes its own increment back.
C33_CounterRestoredOnException ==
  [][\A t \in Threads :
       (lpc[t] = "body" /\ lpc'[t] = "idle") => flag' = flag - 1]_vars

\* C34: once a CDS has been received (item_scheduling has been called),
\* exactly one item-scheduling Timer is pending whenever no call of
\* item_scheduling is in progress.
C34_OneTimerWhenNoCall ==
  (lcalls > 0 /\ \A t \in Threads : lpc[t] = "idle") => pending_timers = 1

(***************************************************************************)
(* Claims about the Display Manager.                                       *)
(***************************************************************************)
VisibleRegisteredAt(pos) ==
  {u \in rmap : /\ robj[u].position = pos
                /\ robj[u].is_visible
                /\ robj[u].has_registered}

\* C1: at every instant, for every position, at most one renderer record of
\* the renderers map is both visible and registered.
C1_OneVisiblePerPosition ==
  \A pos \in Positions : Cardinality(VisibleRegisteredAt(pos)) <= 1

(***************************************************************************)
(* Claims about the Manager.                                               *)
(***************************************************************************)
\* the one-off token on the command line of the handler with key h
OneOffToken(h) == <<h, 0>>

\* the age of the timestamp a registered handler's check-in is due from
LastContact(r) == IF r.last_checkin = Unset THEN r.registered ELSE r.last_checkin

\* C4: a ping, subscription_update or sensor_update that carries the one-off
\* token of an executing handler never updates the handler's last check-in
\* and never puts its payload on the queue to the scheduler.
C4_OneOffTokenNeverAuthenticates ==
  [][\A h \in executing_handlers :
       (\/ HandleRequestPing(OneOffToken(h))
        \/ HandleRequestSensorUpdate(OneOffToken(h))
        \/ \E child \in Uris \ {RootUri} :
              HandleRequestSubscriptionUpdate(OneOffToken(h), child))
       => /\ handlers'[h].last_checkin = handlers[h].last_checkin
          /\ request_queue' = request_queue]_vars

\* C5: a register message whose token is not the one-off token of a spawned
\* handler never registers a handler, never rotates a token and never
\* produces a params reply.
C5_UnmatchedRegisterRejected ==
  [][\A token \in MgrTokens :
       (token \notin {OneOffToken(h) : h \in Slots} /\ HandleRegister(token))
       => /\ handlers' = handlers
          /\ mReply'.kind # "params"]_vars

\* the checker visits the registered handler h whose check-in is overdue
VisitsOverdue(h) ==
  /\ CheckHandler(h)
  /\ handlers[h].running
  /\ handlers[h].registered # Unset
  /\ LastContact(handlers[h]) > SUBPROCESS_CHECKIN_TIMEOUT

\* the checker visits the handler h that has not registered in time
VisitsUnregistered(h) ==
  /\ CheckHandler(h)
  /\ handlers[h].running
  /\ handlers[h].registered = Unset
  /\ handlers[h].started >= SUBPROCESS_REGISTRATION_TIMEOUT

\* the stub handler h was started from: its command and its parameters
StubOf(h) == HandlerStub(handlers[h].handler_params.uri)

\* a Timer for the replacement of h has been started
ReplacementScheduled(h) ==
  timers' = [timers EXCEPT ![StubOf(h)] = @ + 1]

\* the restart policy of _check_handlers has been applied to h
RestartPolicyApplied(h) ==
  /\ h \notin executing_handlers'
  /\ failed_handler_count' = failed_handler_count + 1
  /\ IF failed_handler_count' > SUBPROCESS_FAILED_LIMIT
       THEN mpc' = "stop" /\ timers' = timers
       ELSE ReplacementScheduled(h) /\ mpc' = mpc

\* a Timer runs start_handler for stub
TimerRuns(stub) ==
  /\ stub \in PendingTimers
  /\ timers' = [timers EXCEPT ![stub] = @ - 1]

\* a handler with the command and the parameters of stub has been started
ReplacementStarted(stub) ==
  \E h \in executing_handlers' \ executing_handlers :
    /\ SubSeq(handlers'[h].command_line_args, 1, 3) = stub.command_line_args
    /\ handlers'[h].handler_params = stub.params_over_zmq

\* C7 as stated: when the checker finds the check-in of a registered handler
\* more than 5 s old it stops and removes the handler and a Timer starts a
\* replacement with the same command and parameters.
C7_OverdueHandlerReplaced ==
  [][/\ \A h \in Slots :
          VisitsOverdue(h) => h \notin executing_handlers' /\ ReplacementScheduled(h)
     /\ \A stub \in Stubs : TimerRuns(stub) => ReplacementStarted(stub)]_vars

\* C7 as the code has it: the handler is stopped, removed and counted; the
\* Timer for a replacement with the same command and parameters is started
\* unless the count now exceeds SUBPROCESS_FAILED_LIMIT, when _restart_zmq is
\* started instead; the Timer starts the replacement unless the Manager is
\* stopping or its checker has ended.
C7_OverdueHandlerReplacedUnderPolicy ==
  [][/\ \A h \in Slots : VisitsOverdue(h) => RestartPolicyApplied(h)
     /\ \A stub \in Stubs :
          TimerRuns(stub) =>
            IF NotExecuting
              THEN executing_handlers' = executing_handlers
              ELSE ReplacementStarted(stub)]_vars

\* the checker has stopped an overdue handler and a replacement is pending
C7_Witness ==
  /\ status_log = "checkin overdue"
  /\ PendingTimers # {}

\* C8: a failed count above SUBPROCESS_FAILED_LIMIT is followed by
\* _restart_zmq: its stop() leaves no messaging thread and no handler, and
\* when it has run start() the count is 0 and the checker thread, the
\* messaging thread and the root handler are running.
C8_RestartReinitialises ==
  [][/\ failed_handler_count' > SUBPROCESS_FAILED_LIMIT
          => mpc' \in {"stop", "sleep"}
     /\ (mpc = "stop" /\ mpc' = "sleep")
          => ~messaging_alive' /\ executing_handlers' = {}
     /\ zmq_context' # zmq_context
          => /\ failed_handler_count' = 0
             /\ checker_alive'
             /\ messaging_alive'
             /\ ~stop_request'
             /\ \E h \in executing_handlers' :
                  /\ handlers'[h].handler_params.uri = RootUri
                  /\ handlers'[h].running]_vars

\* the Manager runs again after a restart
C8_Witness ==
  /\ zmq_context > 0
  /\ mpc = "run"
  /\ failed_handler_count = 0
  /\ checker_alive
  /\ messaging_alive

\* C9: when the checker finds a handler that was started 10 s ago or more and
\* has not registered, it stops, removes and counts the handler and applies
\* the restart policy to it.
C9_UnregisteredHandlerFails ==
  [][\A h \in Slots : VisitsUnregistered(h) => RestartPolicyApplied(h)]_vars

\* the checker has stopped a handler whose registration expired
C9_Witness ==
  /\ status_log = "registration expired"
  /\ failed_handler_count > 0

(***************************************************************************)
(* Claims about registration.                                              *)
(***************************************************************************)
\* a params reply has been sent on the Manager's reply socket
ManagerSendsParams == mReply' # mReply /\ mReply'.kind = "params"

\* a params reply has been sent on the Display Manager's reply socket
DisplaySendsParams == dReply' # dReply /\ dReply'.kind = "params"

\* the params reply of a Manager carries the token register() has just
\* generated for a handler, which is not the token of its command line
ManagerDeliversNewToken ==
  \E h \in executing_handlers' :
    /\ handlers'[h].security_token = mReply'.token
    /\ handlers[h].security_token # mReply'.token
    /\ mReply'.token # OneOffToken(h)

\* C6 as stated: the token of every params reply, to a handler or to a
\* renderer, is the token just generated for the record of the subprocess
\* and differs from its one-off token.
C6_ParamsCarryNewToken ==
  [][/\ ManagerSendsParams => ManagerDeliversNewToken
     /\ DisplaySendsParams =>
          \E u \in rmap :
            /\ robj'[u].gen # robj[u].gen
            /\ dReply'.token = <<u, robj'[u].gen>>
            /\ dReply'.token # <<u, 0>>]_vars

\* C6 as the code has it: a Manager delivers the newly generated token of the
\* handler's record, which differs from the one-off token; the Display
\* Manager generates a new token for the renderer's record as well but its
\* params reply carries the literal 'UNUSED'.
C6_ManagerParamsCarryNewToken ==
  [][/\ ManagerSendsParams => ManagerDeliversNewToken
     /\ DisplaySendsParams =>
          /\ dReply'.token = TokenUnused
          /\ \E u \in rmap :
               /\ robj'[u].gen = robj[u].gen + 1
               /\ robj'[u].has_registered]_vars

\* a handler and a renderer have registered and got their params
C6_Witness ==
  /\ mReply.kind = "params"
  /\ dReply.kind = "params"
  /\ \E h \in executing_handlers : handlers[h].registered # Unset
  /\ \E u \in rmap : robj[u].has_registered

(***************************************************************************)
(* Claims about the request loop.                                          *)
(***************************************************************************)
\* a poll for the reply of the outstanding request has timed out
PollTimedOut == hpc = "poll" /\ polls' = polls + 1

\* C10: when the poll for a reply times out the request socket is discarded,
\* a new one is created and connected and the outstanding request is sent
\* again.
C10_TimeoutRebuildsAndResends ==
  [][PollTimedOut =>
       /\ zmq_request_socket' = zmq_request_socket + 1
       /\ sent' = sent + 1
       /\ encoded_qitem' = encoded_qitem]_vars

(***************************************************************************)
(* Claims about the reply sockets.                                         *)
(***************************************************************************)
\* _loop_over_sockets of Manager._handle_incoming_zmq has received a request
ManagerReceives ==
  Register \/ RequestPing \/ RequestSensorUpdate \/ RequestSubscriptionUpdate

\* _loop_over_sockets of DisplayManager._handle_incoming_zmq has received a
\* request
DisplayReceives == DispHandleRegister \/ FinishedLoading \/ PreparationFailed

\* C11: every request received on the reply socket of a Manager or of the
\* Display Manager is answered with one reply, also when its token matches no
\* executing handler or its renderer id is not in the renderers map.
C11_EveryRequestAnswered ==
  [][/\ ManagerReceives => mReply'.kind # "none"
     /\ DisplayReceives => dReply'.kind # "none"]_vars

(***************************************************************************)
(* Claims about the content descriptor set of the Scheduling Manager.      *)
(***************************************************************************)
\* the turn of main took an update that _update accepted
UpdateAccepted == Main /\ Update(cds, Head(cds_updates)).accepted

\* the Context and Constraints parser received a subscription update whose
\* payload fails to parse
ParseFails ==
  \E raw_cds_xml \in SubscriptionUpdates :
    /\ parse_raw_cds_xml(raw_cds_xml) = NoCds
    /\ HandleParserSubscriptionUpdate(raw_cds_xml)

\* C12: after every turn of the main loop the content descriptor set held by
\* the Scheduling Manager is structurally identical to the update the turn
\* received: an update that differs from the held set in an item, a file, a
\* constraint or a child replaces it.
C12_HeldCdsIsLatestReceived ==
  [][Main => cds' = Some(Head(cds_updates))]_vars

\* C13: between accepted updates the content descriptor set held by the
\* Scheduling Manager is not modified: the filters, the scheduler and the
\* comparison with an incoming update leave its items and constraints
\* unchanged.
C13_HeldCdsNeverMutated ==
  [][~UpdateAccepted => cds' = cds]_vars

\* C14: a subscription update whose payload fails to parse is answered and
\* dropped, the held set stays unchanged and the parser goes on accepting
\* updates.
C14_ParseFailureDropped ==
  [][ParseFails =>
       /\ pReply'.kind = "pong"
       /\ cds' = cds
       /\ cds_updates' = cds_updates
       /\ parser_alive']_vars

(***************************************************************************)
(* Claims about the cache directory.                                       *)
(***************************************************************************)
\* the CacheListener threads that are downloading the item
Downloading == {w \in Workers : cpc[w] = "write"}

\* C15: of the CacheListener threads that took the same uncached item from
\* the queue, at most one performs the download.
C15_OneDownloadPerItem == Cardinality(Downloading) <= 1

\* C16: the files <name>.download and <name> of an item never exist in the
\* cache directory at the same time.
C16_DownloadAndFinalExclusive == ~(download_path # NoFile /\ cache_path # NoFile)

\* C17: a file that exists under the final name <name> holds the complete
\* download of the item, so the existence check without hashes (file_cached
\* with strict=False) never yields a partially written file.
C17_FinalFileComplete == cache_path # NoFile => Complete(inode[cache_path])

(***************************************************************************)
(* Claims about the handlers of the Subscription Manager.                  *)
(***************************************************************************)
\* the subscription update of the handler with this token made the
\* Subscription Manager start a handler for the child
SpawnsHandler(token, child) ==
  /\ HandleRequestSubscriptionUpdate(token, child)
  /\ executing_handlers' # executing_handlers

\* C18: a handler for a remote child set is started only if the scheme of
\* the child's URI may nest under the scheme of the feed that delivered the
\* update; an update fetched over http never starts a file handler.
C18_NestingPolicyEnforced ==
  [][\A token \in MgrTokens, child \in Uris :
       SpawnsHandler(token, child) =>
         \A h \in HandlersWithToken(token) :
           can_nest(Scheme(handlers[h].handler_params.uri), Scheme(child))]_vars

\* C19: at most one executing handler exists for any source URI, also while
\* the replacement of a failed handler for that URI is pending.
C19_OneHandlerPerUri ==
  \A uri \in Uris : Cardinality(HandlersWithUri(uri)) <= 1

(***************************************************************************)
(* Claims about the persistent store.                                      *)
(***************************************************************************)
\* the remote children of the row xml_id whose own row holds no fetched text
UnfetchedPlaceholders(t, xml_id) ==
  {i \in DOMAIN t.xml[xml_id][1].children :
     LET elem == t.xml[xml_id][1].children[i]
     IN /\ elem.tag = "content-set"
        /\ t.uri[elem.uri] \in select_child_ids(t, xml_id)
        /\ t.xml[t.uri[elem.uri]] = <<>>}

StoredRoot(t, u) == select_root_id_where_uri(t, u)

\* C20: when the set reassembled for an update has a remote placeholder
\* whose URI has no fetched XML stored yet, to_etree_elem returns None for
\* the set and no subscription_update is put on the queue to the scheduler.
C20_UnfetchedPlaceholderYieldsNone ==
  [][\A u \in Uris, set \in ContentSets :
       LET t == [xml |-> xml_table', uri |-> uri_table', xml_link |-> xml_link']
       IN (/\ StoreAndForward(u, set)
           /\ StoredRoot(t, u) \in DOMAIN t.xml
           /\ t.xml[StoredRoot(t, u)] # <<>>
           /\ UnfetchedPlaceholders(t, StoredRoot(t, u)) # {})
          => xml_children' = NoCds /\ ~forwarded']_vars

(***************************************************************************)
(* Claims about the filters.                                               *)
(***************************************************************************)
\* C21: for every content set, with the day, the cache directory and the
\* context store fixed, the pipeline applied to what it returned returns a
\* set with exactly the same items as its first application.
C21_PipelineIdempotent ==
  twice # NoCds =>
    /\ get_content_items(twice[1]) = get_content_items(once[1])
    /\ get_content_items(CopySet(twice[1])) = get_content_items(CopySet(once[1]))

\* the pipeline ran twice on a set of which it removes one item and keeps
\* the other
C21_Witness ==
  /\ twice # NoCds
  /\ Len(get_content_items(pipeline_cds[1])) = 2
  /\ Len(get_content_items(once[1])) = 1

HasPriorityConstraint(constraints) ==
  \E i \in DOMAIN constraints : constraints[i].tag = "priority"

\* C22 as stated: an item with no PriorityConstraint of its own is kept by
\* the priority check for the condition c if and only if c is medium.
C22_NoPriorityKeptIffMedium ==
  met_at # <<>> =>
    \A k \in DOMAIN met_at[1].kept :
      ~HasPriorityConstraint(get_content_items(pipeline_cds[1])[k].constraints)
        => (met_at[1].kept[k] <=> met_at[1].condition = "medium")

\* C22: an item with no PriorityConstraint among its own constraints and
\* those of the set that contains it is kept by the priority check for the
\* condition c if and only if c is medium, whatever its date constraints.
C22_NoPriorityInEffectKeptIffMedium ==
  met_at # <<>> =>
    \A k \in DOMAIN met_at[1].kept :
      ~HasPriorityConstraint(
          get_constraints(get_content_items(pipeline_cds[1])[k],
                          pipeline_cds[1].xml))
        => (met_at[1].kept[k] <=> met_at[1].condition = "medium")

\* the check at the level high dropped an item whose only constraint is a
\* date
C22_Witness ==
  /\ met_at # <<>>
  /\ met_at[1].condition = "high"
  /\ \E k \in DOMAIN met_at[1].kept :
       /\ ~met_at[1].kept[k]
       /\ pipeline_cds[1].xml.constraints = <<>>
       /\ Len(get_content_items(pipeline_cds[1])[k].constraints) = 1
       /\ get_content_items(pipeline_cds[1])[k].constraints[1].tag = "date"

\* the positions of the items of the set that match the level
Matching(set, level) ==
  {k \in DOMAIN set.children :
     constraints_are_met(get_content_items(set)[k], set.xml, level)}

C24_SameItemWaitsRemainingTime ==
  [][(ItemSchedulingRuns /\ last_run'.branch = "same item, time left")
       => /\ item_scheduling_timer' =
               TimeLeft(last_run'.duration, last_run'.time_difference)
          /\ display_threads' = display_threads
          /\ ruuid' = ruuid]_vars

\* C25: display_item(item, position) starts no renderer when the item is
\* the item of a renderer that is visible at the position and its content
\* type has restart_renderer = false.
C25_VisibleItemNotRestarted ==
  [][\A item \in Items :
       (/\ DisplayItemWithin(MaxRedisplayed, item, "0")
        /\ \E u \in VisibleAt("0") : robj[u].content_item = item
        /\ ~restart_renderer(item))
         => ruuid' = ruuid /\ rmap' = rmap]_vars

\* C26: once _set_renderer_visible has completed for a renderer at a
\* position (its _cleanup_renderers has run), the renderers map holds no
\* record for that position other than the visible one.
C26_OnlyVisibleRecordLeft ==
  [][CleanupRenderers
       => /\ Cardinality({v \in rmap' : robj'[v].position = dCleanup}) <= 1
          /\ \A v \in rmap' :
               robj'[v].position = dCleanup => robj'[v].is_visible]_vars

\* C27: on a preparation_failed request the reporting renderer is stopped
\* and removed from the renderers map, and a thread is started that runs
\* item_scheduling.
C27_FailedRendererRemovedAndRescheduled ==
  [][PreparationFailedReported
       => /\ scheduling_threads' = scheduling_threads + 1
          /\ dReply' = PongReply
          /\ \E id \in Uuids :
               /\ rmap' = rmap \ {id}
               /\ id \in rmap => id \in dStopping']_vars

\* C28: when item_scheduling finds nothing left of the filtered CDS, no
\* renderer is left in the renderers map, each one that was there is being
\* stopped, and the Timer it leaves runs item_scheduling after 5 seconds.
C28_NothingLeftClearsDisplay ==
  [][(ItemSchedulingRuns /\ last_run'.branch = "empty")
       => /\ rmap' = {}
          /\ rmap \subseteq dStopping'
          /\ item_scheduling_timer' = DEFAULT_TIMEOUT]_vars

\* item_scheduling found nothing left while renderers were running
C28_Witness ==
  /\ last_run.branch = "empty"
  /\ ruuid > 0
  /\ rmap = {}
  /\ dStopping # {}
  /\ item_scheduling_timer = DEFAULT_TIMEOUT

\* the window after the reads of a list of outcomes, by the rule of the
\* sentence: DEFAULT_WINDOW at first and after a read that succeeded,
\* min(2 x window, refresh_rate) after one that failed
RECURSIVE WindowAfter(_, _)
WindowAfter(reads, rate) ==
  IF reads = <<>> \/ reads[Len(reads)] = "read" THEN DEFAULT_WINDOW
  ELSE LET before == WindowAfter(SubSeq(reads, 1, Len(reads) - 1), rate)
       IN IF 2 * before <= rate THEN 2 * before ELSE rate

C30_AllTicketsAllocated ==
  ready =>
    /\ tickets_for_allocation = 0
    /\ Len(allocated_tickets) = Len(content_item_ratio_pairs)
    /\ SumOf(allocated_tickets) = total_ticket_count
    /\ \A k \in 1..Len(allocated_tickets) :
         /\ allocated_tickets[k] >= 1
         /\ k < Len(allocated_tickets) =>
              allocated_tickets[k] =
                Larger(round(total_ticket_count * content_item_ratio_pairs[k],
                             SumOf(content_item_ratio_pairs)), 1)

(***************************************************************************)
(* Claims about get_scaled_ratio.                                          *)
(***************************************************************************)
\* C31: among siblings of which at least one has no ratio, the ratio of an
\* unspecified item before renormalization is (1 - sum)/k when the sum of
\* the specified ratios is below 1, and the mean of the specified ratios
\* otherwise.
C31_DefaultRatioOfUnspecified ==
  LET specified_ratio_sum == SumOf(SpecifiedRatios(all_ratios))
      k == Len(all_ratios) - Len(SpecifiedRatios(all_ratios))
  IN (scaled_ratio # <<>> /\ k >= 1) =>
       IF specified_ratio_sum < RatioUnit
         THEN SameFraction(default_ratio,
                           Fraction(RatioUnit - specified_ratio_sum,
                                    RatioUnit * k))
       ELSE SameFraction(default_ratio,
                         MeanOfSpecified(specified_ratio_sum, all_ratios))

(***************************************************************************)
(* Claims about the check-ins of handlers.                                 *)
(***************************************************************************)
\* C35: a handler that keeps checking in is never declared erroneous, also
\* while the checker stops another handler under Manager._lock: a handler of
\* the checker's copy whose check-in was just recorded is not overdue when
\* the checker comes to it in the same pass.
C35_CheckingInHandlerNotOverdue ==
  [][\A h \in Slots :
       (/\ h \in checking /\ h \in checking'
        /\ h \in executing_handlers
        /\ handlers[h].running /\ handlers'[h].running
        /\ handlers[h].registered # Unset
        /\ handlers[h].last_checkin = 0)
       => ~checkin_overdue(handlers'[h])]_vars

(***************************************************************************)
(* Claims about the lottery scheduler.                                     *)
(***************************************************************************)
\* C36: get_items_to_schedule always returns, also when the thread of an
\* allocator ends with an exception without reporting ready.
C36_GetItemsToScheduleReturns ==
  (scheduler_pc = "waiting") ~> (scheduler_pc = "returned")

(***************************************************************************)
(* Claims about failed downloads.                                          *)
(***************************************************************************)
\* C37: the attempt that follows a failed one performs a download, also when
\* the failed attempt left the download file behind: a worker that takes the
\* item while no worker has the download file open does not skip it at
\* line 301.
C37_RetryAfterFailureDownloads ==
  [][\A w \in Workers :
       (/\ cpc[w] = "file_downloading" /\ cpc'[w] # cpc[w]
        /\ \A v \in Workers : f[v] = NoFile)
       => cpc'[w] = "file_cached"]_vars

\* C38: an exception other than CachingURLError that is raised while an item
\* is cached does not end the worker thread.
C38_WorkerSurvivesException ==
  [][\A w \in Workers : cpc[w] = "write" => cpc'[w] # "dead"]_vars

(***************************************************************************)
(* Claims about the links of the persistent store.                         *)
(***************************************************************************)
\* C39: select_root_id_where_uri and to_etree_elem terminate for every set
\* of persisted links: the thread that handles a subscription update never
\* stays in the loop over the parents.
C39_StoreLookupsTerminate == ~store_busy


(***************************************************************************)
(* Claims about the removals during the fade delay.                        *)
(***************************************************************************)
\* C40: when a renderer was removed from the dictionary by remove_item,
\* remove_items or preparation_failed during the fade delay that follows its
\* finished_loading, the run of its delayed transition does not mark it
\* visible and starts no stop of another renderer at its position.
C40_RemovedRendererNotMadeVisible ==
  [][\A u \in removed_in_fade :
       (u \in dTimers /\ u \notin dTimers')
         => /\ ~(robj'[u].is_visible /\ ~robj[u].is_visible)
            /\ \A v \in dStopping' \ dStopping :
                 v = u \/ robj[v].position # robj[u].position]_vars
====
